---- MODULE Spec2Model ----
(***************************************************************************)
(* A model of the evals harness of rwx-cloud/skills: the RWX config model  *)
(* and its queries (rwxconfig), the assertion engine (assertions.go) and   *)
(* the baseline comparator (baseline.go) on top of the trace summary       *)
(* (claude.go).                                                            *)
(*                                                                         *)
(* Go strings are TLA+ strings (Len, \o and SubSeq work on them) and a     *)
(* slice is a sequence.                                                    *)
(* The filesystem is taken to be reliable: reading a file that does not    *)
(* exist reports "not exist", reading a file that exists returns what was  *)
(* written, reading a directory fails, and writes succeed.                 *)
(***************************************************************************)
EXTENDS Integers, Sequences, FiniteSets, TLC

VARIABLES
    files,     \* what the glob .rwx/*.yml matches in the work dir, in order
    cfg,       \* the *RWXConfig under test (NilConfig before one is parsed)
    call,      \* the last operation: its name, arguments and returned values
               \* (in SpecParallel: for each test, where its call stands)
    tlog,      \* what the last operation reported to its testing.T / TB
               \* (in SpecParallel: for each test, what its T was told)
    store,     \* testdata/baselines: test name -> the file of that test
    execResult, \* the *ExecutionResult in hand (NilResult before a run)
    environ,   \* the process environment: variables, working dir, directories
    cmd        \* the agent subprocesses started so far, oldest first

vars == <<files, cfg, call, tlog, store, execResult, environ, cmd>>

\* A nil *RWXConfig; a nil or empty slice is the empty sequence wherever the
\* code only ranges over it.
NilConfig == [nil |-> TRUE]
\* A key that a document does not have.
AbsentNode == [kind |-> "absent"]
NoCall == [op |-> "none"]
\* A nil *ExecutionResult, and an environment that no operation reads.
NilResult == [nil |-> TRUE]
NoEnviron == [nil |-> TRUE]
\* No agent run: the state of the parts that only RunClaude touches.
NoRun == execResult = NilResult /\ environ = NoEnviron /\ cmd = <<>>

(***************************************************************************)
(* Bounds of the model.                                                    *)
(***************************************************************************)
MaxCallLen == 2      \* longest call / prefix string of SpecCall
MaxCallTasks == 1    \* most tasks of a config of SpecCall
MaxSeqLen == 2       \* longest YAML sequence node of SpecFlex
MaxTasks == 2        \* most tasks of a config of SpecEither, of a work dir
MaxFiles == 2        \* most .rwx/*.yml files of a work dir
MaxAssertions == 2   \* most assertions handed to AssertConfig
MaxCandidates == 2   \* most candidates handed to Either
MaxEvents == 2       \* most events of a trace of SpecTrace
MaxRuns == 1         \* most RunClaude calls of a behaviour of SpecRun
MaxCalls == 2        \* most AssertNoRegression calls of one test of SpecParallel

(***************************************************************************)
(* strings                                                                 *)
(***************************************************************************)
\* strings.HasPrefix(s, prefix)
HasPrefix(s, prefix) ==
    /\ Len(prefix) <= Len(s)
    /\ SubSeq(s, 1, Len(prefix)) = prefix

\* strings.Contains(s, substr)
Contains(s, substr) ==
    \E i \in 1..(Len(s) - Len(substr) + 1) :
        SubSeq(s, i, i + Len(substr) - 1) = substr

RECURSIVE StrsOfLen(_, _)
StrsOfLen(alphabet, n) ==
    IF n = 0 THEN {""}
    ELSE {s \o c : s \in StrsOfLen(alphabet, n - 1), c \in alphabet}

StrsUpTo(alphabet, n) == UNION {StrsOfLen(alphabet, k) : k \in 0..n}

RECURSIVE SeqsOfLen(_, _)
SeqsOfLen(S, n) ==
    IF n = 0 THEN {<<>>}
    ELSE {Append(s, x) : s \in SeqsOfLen(S, n - 1), x \in S}

SeqsUpTo(S, n) == UNION {SeqsOfLen(S, k) : k \in 0..n}

(***************************************************************************)
(* YAML nodes of a scalar-or-list field, and yaml.v3's decode of one into  *)
(* a Go value: a sequence node decodes into []string when every item is a  *)
(* scalar, a scalar node decodes into string, anything else is a type      *)
(* error.                                                                  *)
(***************************************************************************)
ScalarNode(s) == [kind |-> "scalar", value |-> s]
SeqNode(items) == [kind |-> "seq", items |-> items]
MapNode == [kind |-> "map"]

\* unmarshal(&list) with list []string: [ok, list]
UnmarshalList(node) ==
    IF /\ node.kind = "seq"
       /\ \A i \in 1..Len(node.items) : node.items[i].kind = "scalar"
    THEN [ok |-> TRUE,
          list |-> [i \in 1..Len(node.items) |-> node.items[i].value]]
    ELSE [ok |-> FALSE, list |-> <<>>]

\* unmarshal(&single) with single string: [ok, single]
UnmarshalString(node) ==
    IF node.kind = "scalar"
    THEN [ok |-> TRUE, single |-> node.value]
    ELSE [ok |-> FALSE, single |-> ""]

\* A plausible slip: the scalar is dropped instead of wrapped.
FlexStringsUnmarshalYAMLDropsScalar(node) ==
    LET l == UnmarshalList(node)
        s == UnmarshalString(node)
    IN  IF l.ok THEN [err |-> FALSE, f |-> l.list]
        ELSE IF s.ok THEN [err |-> FALSE, f |-> <<>>]
        ELSE [err |-> TRUE, f |-> <<>>]

\* (*FlexStrings).UnmarshalYAML: [err, f]
FlexStringsUnmarshalYAML(node) ==
    LET l == UnmarshalList(node)
        s == UnmarshalString(node)
    IN  IF l.ok THEN [err |-> FALSE, f |-> l.list]
        ELSE IF s.ok THEN [err |-> FALSE, f |-> <<s.single>>]
        ELSE [err |-> TRUE, f |-> <<>>]

\* A field of type FlexStrings: the decoder leaves an absent key at nil.
DecodeFlexField(node) ==
    IF node.kind = "absent" THEN [err |-> FALSE, f |-> <<>>]
    ELSE FlexStringsUnmarshalYAML(node)

(***************************************************************************)
(* RWXConfig                                                               *)
(***************************************************************************)
\* A task of a document: the typed fields as written, use and filter as nodes.
RawTask(key, callStr, run, use, filter, env, with, ifExpr, bg) ==
    [key |-> key, call |-> callStr, run |-> run, use |-> use,
     filter |-> filter, env |-> env, with |-> with, if |-> ifExpr,
     bg |-> bg]

\* RWXTask
RWXTask(raw) ==
    [Key |-> raw.key, Call |-> raw.call, Run |-> raw.run,
     Use |-> DecodeFlexField(raw.use).f,
     With |-> raw.with, Env |-> raw.env, If |-> raw.if,
     Filter |-> DecodeFlexField(raw.filter).f,
     BackgroundProcesses |-> raw.bg]

\* ParseRWXConfig: [err, cfg]
ParseRWXConfig(doc) ==
    IF \E i \in 1..Len(doc) :
          \/ DecodeFlexField(doc[i].use).err
          \/ DecodeFlexField(doc[i].filter).err
    THEN [err |-> TRUE, cfg |-> NilConfig]
    ELSE [err |-> FALSE,
          cfg |-> [Tasks |-> [i \in 1..Len(doc) |-> RWXTask(doc[i])]]]

\* What a glob match is: a file holding a document, [exists, data], or a
\* directory of that name.
Directory == [exists |-> TRUE, isDir |-> TRUE]

\* os.ReadFile(f): [err, data]
ReadFile(f) ==
    IF f = Directory THEN [err |-> TRUE, data |-> <<>>]
    ELSE [err |-> FALSE, data |-> f.data]

\* A loader that skips a file it cannot read or parse.
RECURSIVE LoadLoopSkipsBad(_, _, _)
LoadLoopSkipsBad(matches, i, configs) ==
    IF i > Len(matches) THEN [err |-> FALSE, configs |-> configs]
    ELSE LET rd == ReadFile(matches[i])
             r == ParseRWXConfig(rd.data)
         IN  LoadLoopSkipsBad(matches, i + 1,
                 IF rd.err \/ r.err THEN configs ELSE Append(configs, r.cfg))

LoadRWXConfigsSkipsBad(matches) ==
    IF Len(matches) = 0 THEN [err |-> TRUE, configs |-> <<>>]
    ELSE LoadLoopSkipsBad(matches, 1, <<>>)

\* The loop of LoadRWXConfigs from file i on: [err, configs]
RECURSIVE LoadLoop(_, _, _)
LoadLoop(matches, i, configs) ==
    IF i > Len(matches) THEN [err |-> FALSE, configs |-> configs]
    ELSE LET rd == ReadFile(matches[i])
         IN  IF rd.err THEN [err |-> TRUE, configs |-> <<>>]
             ELSE LET r == ParseRWXConfig(rd.data)
                  IN  IF r.err THEN [err |-> TRUE, configs |-> <<>>]
                      ELSE LoadLoop(matches, i + 1, Append(configs, r.cfg))

\* LoadRWXConfigs: [err, configs]
LoadRWXConfigs(matches) ==
    IF Len(matches) = 0 THEN [err |-> TRUE, configs |-> <<>>]
    ELSE LoadLoop(matches, 1, <<>>)

\* A plausible slip: the scan keeps going, so the last match is returned.
RECURSIVE TaskScanLast(_, _, _, _)
TaskScanLast(c, key, i, found) ==
    IF i > Len(c.Tasks) THEN found
    ELSE TaskScanLast(c, key, i + 1,
                      IF c.Tasks[i].Key = key THEN i ELSE found)

TaskLastMatch(c, key) == TaskScanLast(c, key, 1, 0)

\* The loop of Task from index i on.
RECURSIVE TaskScan(_, _, _)
TaskScan(c, key, i) ==
    IF i > Len(c.Tasks) THEN 0
    ELSE IF c.Tasks[i].Key = key THEN i
    ELSE TaskScan(c, key, i + 1)

\* (*RWXConfig).Task: the index of the task pointed to, 0 for a nil pointer.
Task(c, key) == TaskScan(c, key, 1)

\* (*RWXConfig).TaskKeys
TaskKeys(c) == [i \in 1..Len(c.Tasks) |-> c.Tasks[i].Key]

\* A plausible slip: a raw prefix test.
HasTaskWithCallRawPrefix(c, callPrefix) ==
    \E i \in 1..Len(c.Tasks) : HasPrefix(c.Tasks[i].Call, callPrefix)

\* (*RWXConfig).HasTaskWithCall
HasTaskWithCall(c, callPrefix) ==
    \E i \in 1..Len(c.Tasks) :
        \/ c.Tasks[i].Call = callPrefix
        \/ HasPrefix(c.Tasks[i].Call, callPrefix \o " ")

\* (*RWXConfig).TasksWithRun
TasksWithRun(c, substr) ==
    SelectSeq(c.Tasks, LAMBDA t : Contains(t.Run, substr))

\* (*RWXConfig).HasBackgroundProcess
HasBackgroundProcess(c, substr) ==
    \E i \in 1..Len(c.Tasks) :
        \E j \in 1..Len(c.Tasks[i].BackgroundProcesses) :
            \/ Contains(c.Tasks[i].BackgroundProcesses[j].Key, substr)
            \/ Contains(c.Tasks[i].BackgroundProcesses[j].Run, substr)

\* A plausible slip: an unknown task counts as depending on everything.
DependsOnUnknownIsTrue(c, taskKey, dep) ==
    LET t == Task(c, taskKey)
    IN  IF t = 0 THEN TRUE
        ELSE \E i \in 1..Len(c.Tasks[t].Use) : c.Tasks[t].Use[i] = dep

\* (*RWXConfig).DependsOn
DependsOn(c, taskKey, dep) ==
    LET t == Task(c, taskKey)
    IN  IF t = 0 THEN FALSE
        ELSE \E i \in 1..Len(c.Tasks[t].Use) : c.Tasks[t].Use[i] = dep

(***************************************************************************)
(* Assertions.  A ConfigAssertion is a record naming its constructor and   *)
(* the constructor's arguments; Check(a, c) is the sequence of Errorf      *)
(* calls a.Check makes on the TB it is handed.                             *)
(***************************************************************************)
HasTask(key) == [kind |-> "HasTask", key |-> key]
HasPackage(callPrefix) == [kind |-> "HasPackage", callPrefix |-> callPrefix]
HasRunContaining(substr) == [kind |-> "HasRunContaining", substr |-> substr]
TaskDependsOn(taskKey, dep) ==
    [kind |-> "TaskDependsOn", taskKey |-> taskKey, dep |-> dep]
HasService(substr) == [kind |-> "HasService", substr |-> substr]
HasEnvVar(envKey) == [kind |-> "HasEnvVar", envKey |-> envKey]
HasSecretRef(secretName) == [kind |-> "HasSecretRef", secretName |-> secretName]
HasConditional(taskKey) == [kind |-> "HasConditional", taskKey |-> taskKey]
MinTaskCount(n) == [kind |-> "MinTaskCount", n |-> n]
Either(name, assertions) ==
    [kind |-> "Either", name |-> name, assertions |-> assertions]

\* One replacement of sanitizeName's strings.NewReplacer.
SanitizeChar(ch) ==
    IF ch \in {"/", " ", ".", "-"} THEN "_"
    ELSE IF ch \in {"$", "{", "}"} THEN ""
    ELSE ch

\* sanitizeName
RECURSIVE sanitizeName(_)
sanitizeName(s) ==
    IF s = "" THEN ""
    ELSE SanitizeChar(SubSeq(s, 1, 1)) \o sanitizeName(SubSeq(s, 2, Len(s)))

\* The Name field the constructor sets.
Name(a) ==
    CASE a.kind = "HasTask" -> "has_task_" \o a.key
      [] a.kind = "HasPackage" -> "has_package_" \o sanitizeName(a.callPrefix)
      [] a.kind = "HasRunContaining" -> "has_run_" \o sanitizeName(a.substr)
      [] a.kind = "TaskDependsOn" ->
            "task_" \o a.taskKey \o "_depends_on_" \o a.dep
      [] a.kind = "HasService" -> "has_service_" \o sanitizeName(a.substr)
      [] a.kind = "HasEnvVar" -> "has_env_" \o sanitizeName(a.envKey)
      [] a.kind = "HasSecretRef" -> "has_secret_" \o sanitizeName(a.secretName)
      [] a.kind = "HasConditional" -> "task_" \o a.taskKey \o "_has_conditional"
      [] a.kind = "MinTaskCount" -> "min_task_count_" \o ToString(a.n)
      [] a.kind = "Either" -> a.name

\* One t.Errorf call: what it says and the values it formats.
Errorf(what, args) == [what |-> what, args |-> args]

\* probeTB: &probeTB{} and its Errorf.
NewProbe == [failed |-> FALSE]
ProbeErrorf(m, e) == [m EXCEPT !.failed = TRUE]

\* The probe after the Errorf calls of one Check.
RECURSIVE ProbeAfter(_, _)
ProbeAfter(m, errs) ==
    IF errs = <<>> THEN m
    ELSE ProbeAfter(ProbeErrorf(m, Head(errs)), Tail(errs))

\* The calls a HasPackage failure lists.
CallsOf(c) ==
    LET called == SelectSeq(c.Tasks, LAMBDA t : t.Call # "")
    IN  [i \in 1..Len(called) |-> called[i].Call]

RECURSIVE Check(_, _)
RECURSIVE EitherLoop(_, _, _, _)

\* A plausible slip: one probe for all candidates, made before the loop.
RECURSIVE EitherLoopSharedProbe(_, _, _, _, _)
EitherLoopSharedProbe(assertions, c, i, names, probe) ==
    IF i > Len(assertions)
    THEN <<Errorf("none of the alternatives passed", names)>>
    ELSE LET after == ProbeAfter(probe, Check(assertions[i], c))
         IN  IF ~after.failed THEN <<>>
             ELSE EitherLoopSharedProbe(assertions, c, i + 1,
                      Append(names, Name(assertions[i])), after)

EitherCheckSharedProbe(assertions, c) ==
    EitherLoopSharedProbe(assertions, c, 1, <<>>, NewProbe)

\* A plausible slip: the candidates run against the outer TB.
RECURSIVE EitherLoopOuterTB(_, _, _, _, _)
EitherLoopOuterTB(assertions, c, i, names, outer) ==
    IF i > Len(assertions)
    THEN Append(outer, Errorf("none of the alternatives passed", names))
    ELSE LET errs == Check(assertions[i], c)
         IN  IF errs = <<>> THEN outer
             ELSE EitherLoopOuterTB(assertions, c, i + 1,
                      Append(names, Name(assertions[i])), outer \o errs)

EitherCheckOuterTB(assertions, c) ==
    EitherLoopOuterTB(assertions, c, 1, <<>>, <<>>)

\* The loop of Either's Check from candidate i on, names being the names
\* collected so far: the Errorf calls made on the outer TB.
EitherLoop(assertions, c, i, names) ==
    IF i > Len(assertions)
    THEN <<Errorf("none of the alternatives passed", names)>>
    ELSE LET probe == ProbeAfter(NewProbe, Check(assertions[i], c))
         IN  IF ~probe.failed THEN <<>>
             ELSE EitherLoop(assertions, c, i + 1,
                             Append(names, Name(assertions[i])))

\* Either's Check
EitherCheck(assertions, c) == EitherLoop(assertions, c, 1, <<>>)

\* TaskDependsOn's Check
TaskDependsOnCheck(taskKey, dep, c) ==
    LET task == Task(c, taskKey)
    IN  IF task = 0
        THEN <<Errorf("task does not exist", <<taskKey>>)>>
        ELSE IF ~DependsOn(c, taskKey, dep)
        THEN <<Errorf("expected task to depend on",
                      <<taskKey, dep, c.Tasks[task].Use>>)>>
        ELSE <<>>

\* HasConditional's Check
HasConditionalCheck(taskKey, c) ==
    LET task == Task(c, taskKey)
    IN  IF task = 0
        THEN <<Errorf("task does not exist", <<taskKey>>)>>
        ELSE IF c.Tasks[task].If = ""
        THEN <<Errorf("expected task to have a conditional", <<taskKey>>)>>
        ELSE <<>>

\* A value of a with map (map[string]any): a string, or something else.
StrVal(s) == [isString |-> TRUE, s |-> s]
OtherVal == [isString |-> FALSE]

\* A background process of a task.
BGProcess(key, run, readyCheck) ==
    [Key |-> key, Run |-> run, ReadyCheck |-> readyCheck]

\* A plausible slip: only the env blocks are looked at.
HasEnvVarCheckEnvOnly(envKey, c) ==
    IF \E i \in 1..Len(c.Tasks) : envKey \in DOMAIN c.Tasks[i].Env
    THEN <<>>
    ELSE <<Errorf("expected some task to have env var", <<envKey>>)>>

\* HasEnvVar's Check: the loop returns at the first task with the key in its
\* env block or with envKey= in its run field.
HasEnvVarCheck(envKey, c) ==
    IF \E i \in 1..Len(c.Tasks) :
          \/ envKey \in DOMAIN c.Tasks[i].Env
          \/ Contains(c.Tasks[i].Run, envKey \o "=")
    THEN <<>>
    ELSE <<Errorf("expected some task to have env var", <<envKey>>)>>

\* A plausible slip: the search looks at the run fields only.
HasSecretRefCheckRunOnly(secretName, c) ==
    IF \E i \in 1..Len(c.Tasks) :
          Contains(c.Tasks[i].Run, "secrets." \o secretName)
    THEN <<>>
    ELSE <<Errorf("expected some task to reference secret", <<secretName>>)>>

\* HasSecretRef's Check: the loop returns at the first task that has
\* secrets.<name> in its run field, in an env value or in a string with value.
HasSecretRefCheck(secretName, c) ==
    LET needle == "secrets." \o secretName
    IN  IF \E i \in 1..Len(c.Tasks) :
              \/ Contains(c.Tasks[i].Run, needle)
              \/ \E k \in DOMAIN c.Tasks[i].Env :
                     Contains(c.Tasks[i].Env[k], needle)
              \/ \E k \in DOMAIN c.Tasks[i].With :
                     /\ c.Tasks[i].With[k].isString
                     /\ Contains(c.Tasks[i].With[k].s, needle)
        THEN <<>>
        ELSE <<Errorf("expected some task to reference secret",
                      <<secretName>>)>>

\* a.Check(t, c): the Errorf calls made on t.
Check(a, c) ==
    CASE a.kind = "HasTask" ->
            IF Task(c, a.key) = 0
            THEN <<Errorf("expected task to exist", <<a.key, TaskKeys(c)>>)>>
            ELSE <<>>
      [] a.kind = "HasPackage" ->
            IF ~HasTaskWithCall(c, a.callPrefix)
            THEN <<Errorf("expected a task calling",
                          <<a.callPrefix, CallsOf(c)>>)>>
            ELSE <<>>
      [] a.kind = "HasRunContaining" ->
            IF Len(TasksWithRun(c, a.substr)) = 0
            THEN <<Errorf("expected a task with run containing",
                          <<a.substr>>)>>
            ELSE <<>>
      [] a.kind = "TaskDependsOn" -> TaskDependsOnCheck(a.taskKey, a.dep, c)
      [] a.kind = "HasService" ->
            IF ~HasBackgroundProcess(c, a.substr)
            THEN <<Errorf("expected a background process matching",
                          <<a.substr>>)>>
            ELSE <<>>
      [] a.kind = "HasEnvVar" -> HasEnvVarCheck(a.envKey, c)
      [] a.kind = "HasSecretRef" -> HasSecretRefCheck(a.secretName, c)
      [] a.kind = "HasConditional" -> HasConditionalCheck(a.taskKey, c)
      [] a.kind = "MinTaskCount" ->
            IF Len(c.Tasks) < a.n
            THEN <<Errorf("expected at least n tasks",
                          <<ToString(a.n), ToString(Len(c.Tasks)),
                            TaskKeys(c)>>)>>
            ELSE <<>>
      [] a.kind = "Either" -> EitherCheck(a.assertions, c)

\* A check that filters the task list in place while it looks for a run.
ConfigAfterCheckFiltersInPlace(a, c) ==
    IF a.kind = "HasRunContaining"
    THEN [Tasks |-> TasksWithRun(c, a.substr)]
    ELSE c

\* The config that a.Check(t, c) leaves behind: no Check, and no query it
\* calls, assigns through the *RWXConfig.
ConfigAfterCheck(a, c) == c

\* t.Fatalf and t.Logf on the test itself
Fatalf(what) == [what |-> what, fatal |-> TRUE]
Logf(what) == [what |-> what, log |-> TRUE]

\* A plausible slip: the merge keeps only the last file's tasks.
RECURSIVE MergeLoopOverwrites(_, _, _)
MergeLoopOverwrites(configs, i, merged) ==
    IF i > Len(configs) THEN merged
    ELSE MergeLoopOverwrites(configs, i + 1, [Tasks |-> configs[i].Tasks])

\* AssertConfig's merge loop from config i on
RECURSIVE MergeLoop(_, _, _)
MergeLoop(configs, i, merged) ==
    IF i > Len(configs) THEN merged
    ELSE MergeLoop(configs, i + 1,
                   [Tasks |-> merged.Tasks \o configs[i].Tasks])

\* Subtests that stop after the first assertion that fails.
RECURSIVE SubtestsStopAtFirstFailure(_, _)
SubtestsStopAtFirstFailure(assertions, merged) ==
    IF assertions = <<>> THEN <<>>
    ELSE LET errs == Check(Head(assertions), merged)
         IN  <<[name |-> Name(Head(assertions)), errs |-> errs]>>
             \o (IF errs # <<>> THEN <<>>
                 ELSE SubtestsStopAtFirstFailure(Tail(assertions), merged))

\* AssertConfig's subtests: t.Run(a.Name, ...) for each assertion in order
Subtests(assertions, merged) ==
    [i \in 1..Len(assertions) |->
        [name |-> Name(assertions[i]), errs |-> Check(assertions[i], merged)]]

(***************************************************************************)
(* The trace: ClaudeEvent, ContentItem, ExecutionResult and its views.     *)
(* A raw content block or a raw tool input either decodes into the struct  *)
(* or does not; DurationMS, a float64, is held in half milliseconds.       *)
(***************************************************************************)
NoUsage == [nil |-> TRUE]
TokenUsage(in, out) == [nil |-> FALSE, InputTokens |-> in, OutputTokens |-> out]

NoInput == [nil |-> TRUE]
BadInput == [nil |-> FALSE, decodes |-> FALSE]
SkillInput(skill) == [nil |-> FALSE, decodes |-> TRUE, Skill |-> skill]

ContentItem(type, name, input) == [Type |-> type, Name |-> name, Input |-> input]
RawBlock(item) == [decodes |-> TRUE, item |-> item]
BadBlock == [decodes |-> FALSE]

ClaudeEvent(type, subtype, role, content, durationHalfMS, usage, skills) ==
    [Type |-> type, Subtype |-> subtype,
     Message |-> [Role |-> role, Content |-> content],
     DurationMS |-> durationHalfMS, Usage |-> usage, Skills |-> skills]

ExecutionResult(events, prompt) == [Events |-> events, Prompt |-> prompt]

\* ResultEvent's loop from index i down: the index of the event, 0 for nil.
RECURSIVE ResultEventScan(_, _)
ResultEventScan(r, i) ==
    IF i < 1 THEN 0
    ELSE IF r.Events[i].Type = "result" THEN i
    ELSE ResultEventScan(r, i - 1)

\* A scan from the front: the first result event instead of the last.
RECURSIVE ResultEventScanForward(_, _)
ResultEventScanForward(r, i) ==
    IF i > Len(r.Events) THEN 0
    ELSE IF r.Events[i].Type = "result" THEN i
    ELSE ResultEventScanForward(r, i + 1)

ResultEventFirst(r) == ResultEventScanForward(r, 1)

\* (*ExecutionResult).ResultEvent
ResultEvent(r) == ResultEventScan(r, Len(r.Events))

\* A plausible slip: the first block that does not decode ends the event.
RECURSIVE ToolUsesOfContentUntilBad(_)
ToolUsesOfContentUntilBad(content) ==
    IF content = <<>> \/ ~Head(content).decodes THEN <<>>
    ELSE (IF Head(content).item.Type = "tool_use"
          THEN <<Head(content).item>> ELSE <<>>)
         \o ToolUsesOfContentUntilBad(Tail(content))

\* The tool_use items of one event's content, in order.
ToolUsesOfContent(content) ==
    LET kept == SelectSeq(content,
                    LAMBDA raw : raw.decodes /\ raw.item.Type = "tool_use")
    IN  [k \in 1..Len(kept) |-> kept[k].item]

\* (*ExecutionResult).ToolUses, from event i on
RECURSIVE ToolUsesFrom(_, _)
ToolUsesFrom(r, i) ==
    IF i > Len(r.Events) THEN <<>>
    ELSE ToolUsesOfContent(r.Events[i].Message.Content) \o ToolUsesFrom(r, i + 1)

\* (*ExecutionResult).ToolUses
ToolUses(r) == ToolUsesFrom(r, 1)

InSeq(x, xs) == \E k \in 1..Len(xs) : xs[k] = x

\* The loop of ToolNames: names holds what seen marks.
RECURSIVE ToolNamesLoop(_, _)
ToolNamesLoop(items, names) ==
    IF items = <<>> THEN names
    ELSE LET item == Head(items)
         IN  ToolNamesLoop(Tail(items),
                 IF item.Name # "" /\ ~InSeq(item.Name, names)
                 THEN Append(names, item.Name) ELSE names)

\* (*ExecutionResult).ToolNames
ToolNames(r) == ToolNamesLoop(ToolUses(r), <<>>)

\* The first loop of SkillUses: Skill tool_use items.
RECURSIVE SkillUsesLoop(_, _)
SkillUsesLoop(items, skills) ==
    IF items = <<>> THEN skills
    ELSE LET item == Head(items)
         IN  SkillUsesLoop(Tail(items),
                 IF /\ item.Name = "Skill"
                    /\ ~item.Input.nil
                    /\ item.Input.decodes
                    /\ item.Input.Skill # ""
                    /\ ~InSeq(item.Input.Skill, skills)
                 THEN Append(skills, item.Input.Skill) ELSE skills)

\* isRegisteredSkill's loop from event i on
RECURSIVE IsRegisteredFrom(_, _, _)
IsRegisteredFrom(r, name, i) ==
    IF i > Len(r.Events) THEN FALSE
    ELSE IF r.Events[i].Type = "system" /\ r.Events[i].Subtype = "init"
    THEN InSeq(name, r.Events[i].Skills)
    ELSE IsRegisteredFrom(r, name, i + 1)

\* A registration check that accepts any name when no init event is found.
RECURSIVE IsRegisteredFromDefaultTrue(_, _, _)
IsRegisteredFromDefaultTrue(r, name, i) ==
    IF i > Len(r.Events) THEN TRUE
    ELSE IF r.Events[i].Type = "system" /\ r.Events[i].Subtype = "init"
    THEN InSeq(name, r.Events[i].Skills)
    ELSE IsRegisteredFromDefaultTrue(r, name, i + 1)

isRegisteredSkillDefaultTrue(r, name) == IsRegisteredFromDefaultTrue(r, name, 1)

\* A registration check that accepts a name listed by any init event.
isRegisteredSkillAnyInit(r, name) ==
    \E i \in 1..Len(r.Events) :
        /\ r.Events[i].Type = "system" /\ r.Events[i].Subtype = "init"
        /\ InSeq(name, r.Events[i].Skills)

\* (*ExecutionResult).isRegisteredSkill
isRegisteredSkill(r, name) == IsRegisteredFrom(r, name, 1)

\* strings.SplitN(s, " ", 2)[0]
RECURSIVE BeforeFirstSpace(_)
BeforeFirstSpace(s) ==
    IF s = "" \/ SubSeq(s, 1, 1) = " " THEN ""
    ELSE SubSeq(s, 1, 1) \o BeforeFirstSpace(SubSeq(s, 2, Len(s)))

\* SkillUses whose slash-command path does not consult seen.
SkillUsesSlashIgnoresSeen(r) ==
    LET skills == SkillUsesLoop(ToolUses(r), <<>>)
    IN  IF r.Prompt # "" /\ HasPrefix(r.Prompt, "/")
        THEN LET name == BeforeFirstSpace(SubSeq(r.Prompt, 2, Len(r.Prompt)))
             IN  IF name # "" /\ isRegisteredSkill(r, name)
                 THEN Append(skills, name) ELSE skills
        ELSE skills

\* (*ExecutionResult).SkillUses
SkillUses(r) ==
    LET skills == SkillUsesLoop(ToolUses(r), <<>>)
    IN  IF r.Prompt # "" /\ HasPrefix(r.Prompt, "/")
        THEN LET name == BeforeFirstSpace(SubSeq(r.Prompt, 2, Len(r.Prompt)))
             IN  IF /\ name # ""
                    /\ ~InSeq(name, skills)
                    /\ isRegisteredSkill(r, name)
                 THEN Append(skills, name) ELSE skills
        ELSE skills

\* int(f) for the float64 held as h half units: truncation toward zero
IntOfHalves(h) == IF h >= 0 THEN h \div 2 ELSE -((-h) \div 2)

(***************************************************************************)
(* Baseline                                                                *)
(***************************************************************************)
Baseline(in, out, ms, tools, skills) ==
    [InputTokens |-> in, OutputTokens |-> out, ExecutionTimeMS |-> ms,
     ToolsUsed |-> tools, SkillsUsed |-> skills]

\* Summary that reports a missing result event as zeroed metrics, no error
SummarySilentZero(r) ==
    LET evt == ResultEvent(r)
    IN  [err |-> FALSE,
         b |-> Baseline(
             IF evt = 0 \/ r.Events[evt].Usage.nil THEN 0
             ELSE r.Events[evt].Usage.InputTokens,
             IF evt = 0 \/ r.Events[evt].Usage.nil THEN 0
             ELSE r.Events[evt].Usage.OutputTokens,
             IF evt = 0 THEN 0 ELSE IntOfHalves(r.Events[evt].DurationMS),
             ToolNames(r), SkillUses(r))]

\* (*ExecutionResult).Summary: [err, b]
Summary(r) ==
    LET evt == ResultEvent(r)
        tools == ToolNames(r)
        skills == SkillUses(r)
    IN  IF evt = 0
        THEN [err |-> TRUE, b |-> Baseline(0, 0, 0, tools, skills)]
        ELSE LET e == r.Events[evt]
             IN  [err |-> FALSE,
                  b |-> Baseline(
                      IF e.Usage.nil THEN 0 ELSE e.Usage.InputTokens,
                      IF e.Usage.nil THEN 0 ELSE e.Usage.OutputTokens,
                      IntOfHalves(e.DurationMS), tools, skills)]

\* A plausible slip: one file for every test.
baselinePathShared(testName) == "testdata/baselines/" \o "baseline.json"

\* baselinePath
baselinePath(testName) == "testdata/baselines/" \o testName \o ".json"

\* encoding/json of a []string: a nil slice is null
JSONNull == [json |-> "null"]
JSONArray(xs) == [json |-> "array", items |-> xs]
MarshalStrings(xs) == IF xs = <<>> THEN JSONNull ELSE JSONArray(xs)
UnmarshalStrings(v) == IF v.json = "null" THEN <<>> ELSE v.items

\* A plausible slip: the two token counts under each other's tag.
MarshalBaselineSwapsTokens(b) ==
    [input_tokens |-> b.OutputTokens, output_tokens |-> b.InputTokens,
     execution_time_ms |-> b.ExecutionTimeMS,
     tools_used |-> MarshalStrings(b.ToolsUsed),
     skills_used |-> MarshalStrings(b.SkillsUsed)]

\* json.MarshalIndent(b, "", "  "): the document, by its json tags
MarshalBaseline(b) ==
    [input_tokens |-> b.InputTokens, output_tokens |-> b.OutputTokens,
     execution_time_ms |-> b.ExecutionTimeMS,
     tools_used |-> MarshalStrings(b.ToolsUsed),
     skills_used |-> MarshalStrings(b.SkillsUsed)]

\* json.Unmarshal(data, &b)
UnmarshalBaseline(doc) ==
    Baseline(doc.input_tokens, doc.output_tokens, doc.execution_time_ms,
             UnmarshalStrings(doc.tools_used),
             UnmarshalStrings(doc.skills_used))

NoFile == [exists |-> FALSE]
File(data) == [exists |-> TRUE, data |-> data]

\* A plausible slip: a missing file is reported like any read error.
LoadBaselineNotExistIsError(st, testName) ==
    LET f == st[baselinePath(testName)]
    IN  IF ~f.exists THEN [err |-> TRUE, nil |-> TRUE]
        ELSE [err |-> FALSE, nil |-> FALSE, b |-> UnmarshalBaseline(f.data)]

\* LoadBaseline: [err, nil, b]
LoadBaseline(st, testName) ==
    LET f == st[baselinePath(testName)]
    IN  IF ~f.exists THEN [err |-> FALSE, nil |-> TRUE]
        ELSE [err |-> FALSE, nil |-> FALSE, b |-> UnmarshalBaseline(f.data)]

\* A plausible slip: a baseline that exists is kept, not overwritten.
SaveBaselineKeepsExisting(st, testName, b) ==
    IF st[baselinePath(testName)].exists THEN st
    ELSE [st EXCEPT ![baselinePath(testName)] = File(MarshalBaseline(b))]

\* SaveBaseline: the storage after the write
SaveBaseline(st, testName, b) ==
    [st EXCEPT ![baselinePath(testName)] = File(MarshalBaseline(b))]

\* The three thresholds AssertNoRegression passes, in percent.
MaxIncreaseInputTokens == 20
MaxIncreaseOutputTokens == 30
MaxIncreaseExecutionTimeMS == 50

\* float64(current-baseline)/float64(baseline) > maxIncrease for a non-zero
\* baseline, maxIncrease being pct/100.  The values are far below 2^53, so
\* the conversions are exact, and the quotient of a ratio that is exactly
\* pct/100 rounds to the same float64 as the literal: the comparison is that
\* of the exact ratios.
IncreaseExceeds(baseline, current, pct) ==
    IF baseline > 0
    THEN 100 * (current - baseline) > pct * baseline
    ELSE 100 * (current - baseline) < pct * baseline

Regressed(metric, baseline, current) ==
    [what |-> "regressed", args |-> <<metric, baseline, current>>]

\* A plausible slip: >= for >.
checkThresholdAtLeast(metric, baseline, current, pct) ==
    IF baseline = 0 THEN [errs |-> <<>>, divisors |-> <<>>]
    ELSE [errs |-> IF \/ IncreaseExceeds(baseline, current, pct)
                      \/ 100 * (current - baseline) = pct * baseline
                   THEN <<Regressed(metric, baseline, current)>> ELSE <<>>,
          divisors |-> <<baseline>>]

\* A plausible slip: no guard for a zero baseline; the float64 quotient is
\* then +Inf for a positive current value, NaN for zero, -Inf for a negative.
checkThresholdNoZeroGuard(metric, baseline, current, pct) ==
    [errs |-> IF \/ baseline = 0 /\ current > 0
                 \/ baseline # 0 /\ IncreaseExceeds(baseline, current, pct)
              THEN <<Regressed(metric, baseline, current)>> ELSE <<>>,
     divisors |-> <<baseline>>]

\* checkThreshold: the Errorf calls made and the divisors divided by
checkThreshold(metric, baseline, current, pct) ==
    IF baseline = 0 THEN [errs |-> <<>>, divisors |-> <<>>]
    ELSE [errs |-> IF IncreaseExceeds(baseline, current, pct)
                   THEN <<Regressed(metric, baseline, current)>> ELSE <<>>,
          divisors |-> <<baseline>>]

\* The three checkThreshold calls of AssertNoRegression, in order.
CompareMetrics(prev, current) ==
    LET a == checkThreshold("input_tokens", prev.InputTokens,
                            current.InputTokens, MaxIncreaseInputTokens)
        b == checkThreshold("output_tokens", prev.OutputTokens,
                            current.OutputTokens, MaxIncreaseOutputTokens)
        c == checkThreshold("execution_time_ms", prev.ExecutionTimeMS,
                            current.ExecutionTimeMS,
                            MaxIncreaseExecutionTimeMS)
    IN  [errs |-> a.errs \o b.errs \o c.errs,
         divisors |-> a.divisors \o b.divisors \o c.divisors]

\* A plausible slip: a first run records the baseline it did not find.
CompareWithStoredCreatesMissing(st, testName, current) ==
    LET prev == LoadBaseline(st, testName)
    IN  IF prev.nil
        THEN [store |-> SaveBaseline(st, testName, current),
              tlog |-> <<Logf("WARNING: no baseline found")>>,
              divisors |-> <<>>]
        ELSE LET cmp == CompareMetrics(prev.b, current)
             IN  [store |-> st, tlog |-> cmp.errs, divisors |-> cmp.divisors]

\* AssertNoRegression without -update: load, warn or compare.
CompareWithStored(st, testName, current) ==
    LET prev == LoadBaseline(st, testName)
    IN  IF prev.err
        THEN [store |-> st, tlog |-> <<Fatalf("loading baseline")>>,
              divisors |-> <<>>]
        ELSE IF prev.nil
        THEN [store |-> st,
              tlog |-> <<Logf("WARNING: no baseline found")>>,
              divisors |-> <<>>]
        ELSE LET cmp == CompareMetrics(prev.b, current)
             IN  [store |-> st, tlog |-> cmp.errs, divisors |-> cmp.divisors]

\* AssertNoRegression: the storage after, what t was told, what was divided by
AssertNoRegressionBody(st, testName, result, upd) ==
    LET current == Summary(result)
    IN  IF current.err
        THEN [store |-> st, tlog |-> <<Fatalf("extracting summary")>>,
              divisors |-> <<>>]
        ELSE IF upd
        THEN [store |-> SaveBaseline(st, testName, current.b),
              tlog |-> <<Logf("updated baseline")>>,
              divisors |-> <<>>]
        ELSE CompareWithStored(st, testName, current.b)

(***************************************************************************)
(* Inputs shared by the specifications.                                    *)
(***************************************************************************)
NoEnv == <<>>
NoWith == <<>>
NoBG == <<>>

\* A task that only has a key and a call.
CallTask(key, callStr) ==
    RWXTask(RawTask(key, callStr, "", AbsentNode, AbsentNode,
                    NoEnv, NoWith, "", NoBG))

EmptyStore == [n \in {} |-> 0]

(***************************************************************************)
(* SpecCall: HasTaskWithCall and HasPackage on configs whose calls are all *)
(* the short strings over a letter, a dash and the separator, and on the   *)
(* configs of TestHasTaskWithCall_Boundary.                                *)
(***************************************************************************)
CallAlphabet == {"a", "-", " "}
CallStrings == StrsUpTo(CallAlphabet, MaxCallLen)

BoundaryCalls == {"git/clone", "git/clone 2.0.2", "git/clone-extra 1.0.0"}
BoundaryPrefixes == {"git/clone", "git/clon", "git/clone-ex"}

CallConfigs ==
    {[Tasks |-> [i \in 1..Len(cs) |-> CallTask("t", cs[i])]] :
        cs \in SeqsUpTo(CallStrings, MaxCallTasks)
                \cup SeqsUpTo(BoundaryCalls, MaxCallTasks)}

InitCall ==
    /\ files = <<>>
    /\ cfg \in CallConfigs
    /\ call = NoCall
    /\ tlog = <<>>
    /\ store = EmptyStore
    /\ NoRun

\* cfg.HasTaskWithCall(callPrefix), as the tests call it
CallHasTaskWithCall(callPrefix) ==
    /\ call' = [op |-> "HasTaskWithCall", callPrefix |-> callPrefix,
                ret |-> HasTaskWithCall(cfg, callPrefix)]
    /\ tlog' = <<>>
    /\ UNCHANGED <<files, cfg, store, execResult, environ, cmd>>

\* a.Check(t, cfg) for one assertion, t collecting the Errorf calls
RunAssertion(a) ==
    /\ call' = [op |-> "Check", assertion |-> a]
    /\ tlog' = Check(a, cfg)
    /\ cfg' = ConfigAfterCheck(a, cfg)
    /\ UNCHANGED <<files, store, execResult, environ, cmd>>

NextCall ==
    \/ \E p \in CallStrings \cup BoundaryPrefixes : CallHasTaskWithCall(p)
    \/ \E p \in CallStrings \cup BoundaryPrefixes : RunAssertion(HasPackage(p))

SpecCall == InitCall /\ [][NextCall]_vars

\* C3: HasTaskWithCall(p) is true iff some task's call is p itself or p
\* followed by a space and more; HasPackage(p) passes in exactly those cases;
\* "git/clone-extra 1.0.0" alone matches none of "git/clone", "git/clon",
\* "git/clone-ex", while "git/clone" and "git/clone 2.0.2" match "git/clone".
SeparatorBounded(callStr, p) ==
    \/ callStr = p
    \/ /\ Len(callStr) > Len(p)
       /\ SubSeq(callStr, 1, Len(p)) = p
       /\ SubSeq(callStr, Len(p) + 1, Len(p) + 1) = " "

C3_CallMatchIsSeparatorBounded ==
    /\ call.op = "HasTaskWithCall" =>
          /\ call.ret <=> \E i \in 1..Len(cfg.Tasks) :
                             SeparatorBounded(cfg.Tasks[i].Call, call.callPrefix)
          /\ (/\ Len(cfg.Tasks) = 1
              /\ cfg.Tasks[1].Call = "git/clone-extra 1.0.0"
              /\ call.callPrefix \in BoundaryPrefixes) => ~call.ret
          /\ (/\ Len(cfg.Tasks) = 1
              /\ cfg.Tasks[1].Call \in {"git/clone", "git/clone 2.0.2"}
              /\ call.callPrefix = "git/clone") => call.ret
    /\ (call.op = "Check" /\ call.assertion.kind = "HasPackage") =>
          ((tlog = <<>>) <=> \E i \in 1..Len(cfg.Tasks) :
              SeparatorBounded(cfg.Tasks[i].Call, call.assertion.callPrefix))

\* A call that shares the prefix as a raw string was asked about and refused.
C3_Witness ==
    /\ call.op = "HasTaskWithCall"
    /\ Len(cfg.Tasks) = 1
    /\ cfg.Tasks[1].Call = "git/clone-extra 1.0.0"
    /\ call.callPrefix = "git/clone"
    /\ ~call.ret

(***************************************************************************)
(* SpecFlex: ParseRWXConfig on a document of one task whose use and filter *)
(* are each absent, a scalar, a mapping, or a sequence of scalars and      *)
(* mappings.                                                               *)
(***************************************************************************)
FlexScalars == {"a", "b"}
FlexItems == {ScalarNode(s) : s \in FlexScalars} \cup {MapNode}
FlexNodes ==
    {AbsentNode, MapNode}
        \cup {ScalarNode(s) : s \in FlexScalars}
        \cup {SeqNode(items) : items \in SeqsUpTo(FlexItems, MaxSeqLen)}

InitFlex ==
    /\ \E use \in FlexNodes, filter \in FlexNodes :
          files = <<File(<<RawTask("deploy", "", "", use, filter,
                                   NoEnv, NoWith, "", NoBG)>>)>>
    /\ cfg = NilConfig
    /\ call = NoCall
    /\ tlog = <<>>
    /\ store = EmptyStore
    /\ NoRun

\* ParseRWXConfig on the document of the i-th file, as the tests call it
ParseFile(i) ==
    /\ files[i] # Directory
    /\ LET r == ParseRWXConfig(files[i].data)
       IN  /\ call' = [op |-> "ParseRWXConfig", file |-> i, err |-> r.err]
           /\ cfg' = r.cfg
    /\ tlog' = <<>>
    /\ UNCHANGED <<files, store, execResult, environ, cmd>>

NextFlex == \E i \in 1..Len(files) : ParseFile(i)

SpecFlex == InitFlex /\ [][NextFlex]_vars

\* C4: a scalar S decodes to the one-element list <<S>>, a list of strings
\* to that list (same length, same order), and the decode fails exactly for
\* a value that is neither a list of strings nor a single string.
IsStringList(node) ==
    /\ node.kind = "seq"
    /\ \A k \in 1..Len(node.items) : node.items[k].kind = "scalar"

Decodable(node) == node.kind \in {"absent", "scalar"} \/ IsStringList(node)

FieldDecodedAsClaimed(node, f) ==
    /\ node.kind = "scalar" => f = <<node.value>>
    /\ IsStringList(node) =>
          /\ Len(f) = Len(node.items)
          /\ \A k \in 1..Len(f) : f[k] = node.items[k].value

C4_FlexStringsDecode ==
    call.op = "ParseRWXConfig" =>
        LET doc == files[call.file].data
        IN  /\ call.err <=> \E i \in 1..Len(doc) :
                               ~Decodable(doc[i].use) \/ ~Decodable(doc[i].filter)
            /\ ~call.err =>
                  /\ Len(cfg.Tasks) = Len(doc)
                  /\ \A i \in 1..Len(doc) :
                        /\ FieldDecodedAsClaimed(doc[i].use, cfg.Tasks[i].Use)
                        /\ FieldDecodedAsClaimed(doc[i].filter,
                                                 cfg.Tasks[i].Filter)

\* A scalar use and a two-element list filter were decoded.
C4_Witness ==
    /\ call.op = "ParseRWXConfig"
    /\ ~call.err
    /\ files[1].data[1].use = ScalarNode("a")
    /\ cfg.Tasks[1].Use = <<"a">>
    /\ files[1].data[1].filter = SeqNode(<<ScalarNode("b"), ScalarNode("a")>>)
    /\ cfg.Tasks[1].Filter = <<"b", "a">>

(***************************************************************************)
(* SpecEither: Either over every list of candidates, on configs made of    *)
(* tasks that clone by package or by script and that do or do not depend   *)
(* on the clone.                                                           *)
(***************************************************************************)
EitherTasks ==
    {RWXTask(raw) : raw \in {
        RawTask("code", "git/clone 2.0.2", "", AbsentNode, AbsentNode,
                NoEnv, NoWith, "", NoBG),
        RawTask("code", "", "git clone .", AbsentNode, AbsentNode,
                NoEnv, NoWith, "", NoBG),
        RawTask("test", "", "go test ./...",
                SeqNode(<<ScalarNode("code")>>), AbsentNode,
                NoEnv, NoWith, "", NoBG),
        RawTask("test", "", "go test ./...", AbsentNode, AbsentNode,
                NoEnv, NoWith, "", NoBG)}}

EitherConfigs == {[Tasks |-> ts] : ts \in SeqsUpTo(EitherTasks, MaxTasks)}

Candidates ==
    {HasPackage("git/clone"), HasRunContaining("git clone"),
     TaskDependsOn("test", "code"), MinTaskCount(2),
     Either("inner", <<HasTask("code"), HasTask("test")>>)}

InitEither ==
    /\ files = <<>>
    /\ cfg \in EitherConfigs
    /\ call = NoCall
    /\ tlog = <<>>
    /\ store = EmptyStore
    /\ NoRun

NextEither ==
    \E cands \in SeqsUpTo(Candidates, MaxCandidates) :
        RunAssertion(Either("clones_repo", cands))

SpecEither == InitEither /\ [][NextEither]_vars

\* A candidate run on its own against the config reports a failure.
FailsAlone(a, c) == Check(a, c) # <<>>

EitherRan == call.op = "Check" /\ call.assertion.kind = "Either"

\* C1: Either reports a failure iff every candidate, run on its own against
\* the same config, reports one (so an empty list fails, and Either passes
\* iff some candidate passes).
C1_EitherFailsIffAllFail ==
    EitherRan =>
        LET cands == call.assertion.assertions
        IN  /\ (tlog # <<>>) <=>
                  \A i \in 1..Len(cands) : FailsAlone(cands[i], cfg)
            /\ (tlog = <<>>) <=>
                  \E i \in 1..Len(cands) : ~FailsAlone(cands[i], cfg)

\* Either passed on its second candidate after its first had failed.
C1_Witness ==
    /\ EitherRan
    /\ Len(call.assertion.assertions) = 2
    /\ FailsAlone(call.assertion.assertions[1], cfg)
    /\ ~FailsAlone(call.assertion.assertions[2], cfg)
    /\ tlog = <<>>

\* C2: the outer reporter gets no Errorf when some candidate passes and
\* exactly one when all fail; that one is Either's own, listing the names of
\* all candidates in order, and no candidate's failure is among the calls.
C2_EitherOneConsolidatedFailure ==
    EitherRan =>
        LET cands == call.assertion.assertions
            somePasses == \E i \in 1..Len(cands) : ~FailsAlone(cands[i], cfg)
        IN  /\ somePasses => Len(tlog) = 0
            /\ ~somePasses =>
                  /\ Len(tlog) = 1
                  /\ tlog[1].what = "none of the alternatives passed"
                  /\ tlog[1].args = [i \in 1..Len(cands) |-> Name(cands[i])]

\* Two candidates failed and the outer reporter got the one failure naming both.
C2_Witness ==
    /\ EitherRan
    /\ Len(call.assertion.assertions) = 2
    /\ call.assertion.assertions[1] = HasPackage("git/clone")
    /\ call.assertion.assertions[2] = HasRunContaining("git clone")
    /\ tlog = <<Errorf("none of the alternatives passed",
                       <<"has_package_git_clone", "has_run_git_clone">>)>>

(***************************************************************************)
(* SpecConfig: a work dir of up to MaxFiles documents holding up to        *)
(* MaxTasks tasks between them; a document is parsed on its own or all are *)
(* loaded and merged by AssertConfig, and the config is then queried.      *)
(***************************************************************************)
ConfigRawTasks ==
    {RawTask("code", "git/clone 2.0.2", "", AbsentNode, AbsentNode,
             NoEnv, NoWith, "", NoBG),
     RawTask("code", "", "git clone .", AbsentNode, AbsentNode,
             NoEnv, NoWith, "", NoBG),
     RawTask("test", "", "go test ./...", ScalarNode("code"), AbsentNode,
             NoEnv, NoWith, "", NoBG),
     RawTask("deploy", "", "", MapNode, AbsentNode,
             NoEnv, NoWith, "", NoBG)}

\* The work dirs of exactly k matches, files or directories, with at most n
\* tasks between them.
RECURSIVE FilesOf(_, _)
FilesOf(k, n) ==
    IF k = 0 THEN {<<>>}
    ELSE UNION {{<<File(d)>> \o rest : rest \in FilesOf(k - 1, n - Len(d))} :
                    d \in SeqsUpTo(ConfigRawTasks, n)}
         \cup {<<Directory>> \o rest : rest \in FilesOf(k - 1, n)}

ConfigKeys == {"code", "test", "missing"}
ConfigAssertions == {HasTask("code"), MinTaskCount(2)}

InitConfig ==
    /\ files \in UNION {FilesOf(k, MaxTasks) : k \in 0..MaxFiles}
    /\ cfg = NilConfig
    /\ call = NoCall
    /\ tlog = <<>>
    /\ store = EmptyStore
    /\ NoRun

\* AssertConfig(t, workDir, assertions)
AssertConfig(assertions) ==
    LET loaded == LoadRWXConfigs(files)
        merged == MergeLoop(loaded.configs, 1, [Tasks |-> <<>>])
    IN  IF loaded.err
        THEN /\ tlog' = <<Fatalf("loading RWX configs")>>
             /\ call' = [op |-> "AssertConfig", assertions |-> assertions,
                         loaded |-> FALSE, subtests |-> <<>>]
             /\ UNCHANGED <<files, cfg, store, execResult, environ, cmd>>
        ELSE /\ tlog' = <<>>
             /\ call' = [op |-> "AssertConfig", assertions |-> assertions,
                         loaded |-> TRUE,
                         subtests |-> Subtests(assertions, merged)]
             /\ cfg' = merged
             /\ UNCHANGED <<files, store, execResult, environ, cmd>>

\* cfg.Task(key), as the tests call it
CallTaskByKey(key) ==
    /\ cfg # NilConfig
    /\ call' = [op |-> "Task", key |-> key, ret |-> Task(cfg, key)]
    /\ tlog' = <<>>
    /\ UNCHANGED <<files, cfg, store, execResult, environ, cmd>>

\* LoadRWXConfigs(workDir)
CallLoadRWXConfigs ==
    /\ call' = [op |-> "LoadRWXConfigs", err |-> LoadRWXConfigs(files).err,
                configs |-> LoadRWXConfigs(files).configs]
    /\ tlog' = <<>>
    /\ UNCHANGED <<files, cfg, store, execResult, environ, cmd>>

NextConfig ==
    \/ \E i \in 1..Len(files) : ParseFile(i)
    \/ CallLoadRWXConfigs
    \/ \E as \in SeqsUpTo(ConfigAssertions, MaxAssertions) : AssertConfig(as)
    \/ \E key \in ConfigKeys : CallTaskByKey(key)

SpecConfig == InitConfig /\ [][NextConfig]_vars

\* The tasks of all documents, in file order (every document parsing).
RECURSIVE AllTasks(_)
AllTasks(fs) ==
    IF fs = <<>> THEN <<>>
    ELSE ParseRWXConfig(Head(fs).data).cfg.Tasks \o AllTasks(Tail(fs))

AllParse(fs) ==
    \A i \in 1..Len(fs) :
        fs[i] # Directory /\ ~ParseRWXConfig(fs[i].data).err

HasKey(f, key) == \E i \in 1..Len(f.data) : f.data[i].key = key

\* C5: Task(key) returns nil iff no task has the key, and otherwise the first
\* task with the key; on the config merged from several files that is the
\* task Task(key) finds in the first file that has the key.
C5_TaskFirstMatchOrNil ==
    call.op = "Task" =>
        LET hits == {i \in 1..Len(cfg.Tasks) : cfg.Tasks[i].Key = call.key}
        IN  /\ (call.ret = 0) <=> (hits = {})
            /\ call.ret # 0 =>
                  /\ call.ret \in hits
                  /\ \A j \in hits : call.ret <= j
            /\ (/\ AllParse(files)
                /\ cfg.Tasks = AllTasks(files)
                /\ call.ret # 0) =>
                  \E f \in 1..Len(files) :
                      /\ HasKey(files[f], call.key)
                      /\ \A g \in 1..(f - 1) : ~HasKey(files[g], call.key)
                      /\ LET single == ParseRWXConfig(files[f].data).cfg
                         IN  cfg.Tasks[call.ret] =
                                 single.Tasks[Task(single, call.key)]

\* The key is in two files of a merged config and the first file's task is
\* returned.
C5_Witness ==
    /\ call.op = "Task"
    /\ call.key = "code"
    /\ Len(files) = 2
    /\ files[1] # files[2]
    /\ AllParse(files)
    /\ HasKey(files[1], "code") /\ HasKey(files[2], "code")
    /\ cfg.Tasks = AllTasks(files)
    /\ call.ret = 1
    /\ cfg.Tasks[1] = RWXTask(files[1].data[1])

\* Match f can be read and its document decodes.
Loads(f) ==
    /\ f # Directory
    /\ \A i \in 1..Len(f.data) :
           Decodable(f.data[i].use) /\ Decodable(f.data[i].filter)

\* C18: LoadRWXConfigs returns an error and no configs when no file matches
\* or when any match cannot be read or does not parse, wherever it is in the
\* order; otherwise it returns one config per match, in the order of the
\* matches, each the parse of its file.
C18_LoadAllOrNothing ==
    call.op = "LoadRWXConfigs" =>
        /\ call.err <=> (files = <<>> \/ \E i \in 1..Len(files) : ~Loads(files[i]))
        /\ call.err => call.configs = <<>>
        /\ ~call.err =>
               /\ Len(call.configs) = Len(files)
               /\ \A i \in 1..Len(files) :
                      /\ Len(call.configs[i].Tasks) = Len(files[i].data)
                      /\ \A k \in 1..Len(files[i].data) :
                             call.configs[i].Tasks[k].Key = files[i].data[k].key

\* The first file parses and the second match does not load: nothing is
\* returned.
C18_Witness ==
    /\ call.op = "LoadRWXConfigs"
    /\ Len(files) = 2
    /\ Loads(files[1]) /\ files[1].data # <<>>
    /\ ~Loads(files[2])
    /\ call.err
    /\ call.configs = <<>>

\* Assertion a is violated by a config of these tasks.
Violates(a, tasks) ==
    CASE a.kind = "HasTask" -> \A i \in 1..Len(tasks) : tasks[i].Key # a.key
      [] a.kind = "MinTaskCount" -> Len(tasks) < a.n

\* C19: when the configs load, AssertConfig runs one subtest per assertion,
\* in list order and under the assertion's name, each against the config
\* whose tasks are the files' tasks concatenated in file order; a subtest
\* fails exactly when its assertion is violated by that config, whatever the
\* subtests before it did.
C19_AssertConfigRunsEveryAssertion ==
    (call.op = "AssertConfig" /\ call.loaded) =>
        /\ cfg.Tasks = AllTasks(files)
        /\ Len(call.subtests) = Len(call.assertions)
        /\ \A i \in 1..Len(call.assertions) :
               /\ call.subtests[i].name = Name(call.assertions[i])
               /\ call.subtests[i].errs # <<>>
                      <=> Violates(call.assertions[i], AllTasks(files))

\* Two files are merged and both assertions fail: both are reported.
C19_Witness ==
    /\ call.op = "AssertConfig"
    /\ call.loaded
    /\ Len(files) = 2
    /\ Len(cfg.Tasks) = 1
    /\ files[1].data = <<>>
    /\ Len(call.subtests) = 2
    /\ call.subtests[1].name = "min_task_count_2"
    /\ call.subtests[1].errs # <<>>
    /\ call.subtests[2].name = "has_task_code"
    /\ call.subtests[2].errs # <<>>

(***************************************************************************)
(* SpecBaseline: runs of AssertNoRegression for one test, with and without *)
(* -update, on traces that end in a result event (with or without usage)   *)
(* or have none.  The metric values sit at, below and above each threshold *)
(* of a baseline of 10; two token counts are negative.                     *)
(***************************************************************************)
BaselineTests == {"TestCreateRWX"}
UsageValues ==
    {NoUsage, TokenUsage(10, 10), TokenUsage(12, 13), TokenUsage(13, 14),
     TokenUsage(13, 10), TokenUsage(10, 14), TokenUsage(0, 14),
     TokenUsage(-5, 10), TokenUsage(-13, 10)}
DurationHalfMSValues == {0, 20, 31, 32}

AssistantEvent ==
    ClaudeEvent("assistant", "", "assistant",
                <<RawBlock(ContentItem("tool_use", "Bash", NoInput)),
                  BadBlock,
                  RawBlock(ContentItem("tool_use", "Skill",
                                       SkillInput("rwx:rwx"))),
                  RawBlock(ContentItem("text", "", NoInput))>>,
                0, NoUsage, <<>>)

ResultEvents ==
    {ClaudeEvent("result", "success", "", <<>>, d, u, <<>>) :
        d \in DurationHalfMSValues, u \in UsageValues}

BaselineResults ==
    {ExecutionResult(<<>>, "write a config"),
     ExecutionResult(<<AssistantEvent>>, "write a config")}
        \cup {ExecutionResult(<<AssistantEvent, e>>, "write a config") :
                  e \in ResultEvents}

InitBaseline ==
    /\ files = <<>>
    /\ cfg = NilConfig
    /\ call = NoCall
    /\ tlog = <<>>
    /\ store = [p \in {baselinePath(n) : n \in BaselineTests} |-> NoFile]
    /\ NoRun

\* AssertNoRegression(t, result) in the test named testName, -update being upd
AssertNoRegression(testName, result, upd) ==
    LET out == AssertNoRegressionBody(store, testName, result, upd)
    IN  /\ store' = out.store
        /\ tlog' = out.tlog
        /\ call' = [op |-> "AssertNoRegression", testName |-> testName,
                    result |-> result, update |-> upd,
                    before |-> store[baselinePath(testName)],
                    divisors |-> out.divisors]
        /\ UNCHANGED <<files, cfg, execResult, environ, cmd>>

NextBaseline ==
    \E n \in BaselineTests, r \in BaselineResults, upd \in BOOLEAN :
        AssertNoRegression(n, r, upd)

SpecBaseline == InitBaseline /\ [][NextBaseline]_vars

Ran == call.op = "AssertNoRegression"

\* The test passed: t was only told Logf.
Passed == \A k \in 1..Len(tlog) : "log" \in DOMAIN tlog[k]
IsRegression(e) == "args" \in DOMAIN e /\ e.what = "regressed"
Reported(metric) ==
    \E k \in 1..Len(tlog) : IsRegression(tlog[k]) /\ tlog[k].args[1] = metric
NoRegressionReported == \A k \in 1..Len(tlog) : ~IsRegression(tlog[k])

HasResultEvent(r) == \E i \in 1..Len(r.Events) : r.Events[i].Type = "result"

\* The last result event's metrics, as the snapshot holds them.
LastResult(r) ==
    LET last == CHOOSE i \in 1..Len(r.Events) :
                    /\ r.Events[i].Type = "result"
                    /\ \A j \in (i + 1)..Len(r.Events) :
                          r.Events[j].Type # "result"
    IN  r.Events[last]

CurrentMetric(metric) ==
    LET e == LastResult(call.result)
    IN  CASE metric = "input_tokens" ->
                IF e.Usage.nil THEN 0 ELSE e.Usage.InputTokens
          [] metric = "output_tokens" ->
                IF e.Usage.nil THEN 0 ELSE e.Usage.OutputTokens
          [] metric = "execution_time_ms" ->
                IF e.DurationMS >= 0 THEN e.DurationMS \div 2
                ELSE -((-e.DurationMS) \div 2)

BaselineMetric(metric) ==
    CASE metric = "input_tokens" -> call.before.data.input_tokens
      [] metric = "output_tokens" -> call.before.data.output_tokens
      [] metric = "execution_time_ms" -> call.before.data.execution_time_ms

Metrics == <<"input_tokens", "output_tokens", "execution_time_ms">>
ThresholdPct(metric) ==
    CASE metric = "input_tokens" -> 20
      [] metric = "output_tokens" -> 30
      [] metric = "execution_time_ms" -> 50

Compared == Ran /\ ~call.update /\ call.before.exists
               /\ HasResultEvent(call.result)

C7_RegressionPerMetric ==
    (/\ Compared
     /\ \A m \in 1..3 : BaselineMetric(Metrics[m]) >= 0
                        /\ CurrentMetric(Metrics[m]) >= 0) =>
        /\ \A m \in 1..3 :
              LET b == BaselineMetric(Metrics[m])
                  c == CurrentMetric(Metrics[m])
              IN  /\ Reported(Metrics[m]) <=>
                        (b # 0 /\ 100 * (c - b) > ThresholdPct(Metrics[m]) * b)
                  /\ c <= b => ~Reported(Metrics[m])
                  /\ Cardinality({k \in 1..Len(tlog) :
                                     tlog[k].args[1] = Metrics[m]}) <= 1
        /\ \A k \in 1..Len(tlog) :
              /\ IsRegression(tlog[k])
              /\ \E m \in 1..3 : tlog[k].args[1] = Metrics[m]

\* All three metrics regressed in one run and all three were reported.
C7_Witness ==
    /\ Compared
    /\ \A m \in 1..3 : BaselineMetric(Metrics[m]) = 10
    /\ CurrentMetric("input_tokens") = 13
    /\ CurrentMetric("output_tokens") = 14
    /\ CurrentMetric("execution_time_ms") = 16
    /\ Len(tlog) = 3
    /\ \A m \in 1..3 : Reported(Metrics[m])

\* C8: a metric whose baseline is zero is not reported whatever the current
\* value, nothing is divided by zero, and each metric with a non-zero
\* baseline is still divided and compared.
C8_ZeroBaselineSkipped ==
    Compared =>
        /\ \A k \in 1..Len(call.divisors) : call.divisors[k] # 0
        /\ Len(call.divisors) =
              Cardinality({m \in 1..3 : BaselineMetric(Metrics[m]) # 0})
        /\ \A m \in 1..3 :
              LET b == BaselineMetric(Metrics[m])
                  c == CurrentMetric(Metrics[m])
              IN  /\ b = 0 => ~Reported(Metrics[m])
                  /\ b > 0 =>
                        (Reported(Metrics[m]) <=>
                            100 * (c - b) > ThresholdPct(Metrics[m]) * b)

\* The token baselines are zero, the current tokens are not, and only the
\* execution time was reported.
C8_Witness ==
    /\ Compared
    /\ BaselineMetric("input_tokens") = 0
    /\ BaselineMetric("output_tokens") = 0
    /\ BaselineMetric("execution_time_ms") = 10
    /\ CurrentMetric("input_tokens") = 13
    /\ CurrentMetric("output_tokens") = 14
    /\ CurrentMetric("execution_time_ms") = 16
    /\ ~Reported("input_tokens") /\ ~Reported("output_tokens")
    /\ Reported("execution_time_ms")

\* The snapshot of the current run, by the fields of the trace.
CurrentSnapshot ==
    Baseline(CurrentMetric("input_tokens"), CurrentMetric("output_tokens"),
             CurrentMetric("execution_time_ms"),
             ToolNames(call.result), SkillUses(call.result))

StoredIsCurrent ==
    LET f == store[baselinePath(call.testName)]
    IN  /\ f.exists
        /\ f.data.input_tokens = CurrentMetric("input_tokens")
        /\ f.data.output_tokens = CurrentMetric("output_tokens")
        /\ f.data.execution_time_ms = CurrentMetric("execution_time_ms")
        /\ LoadBaseline(store, call.testName).b = CurrentSnapshot

C10_StoreChangesOnlyInRecordMode ==
    [][(store' # store) =>
          (call'.op = "AssertNoRegression" /\ call'.update)]_vars

\* A run without -update reported a regression and the baseline is as before.
C10_Witness ==
    /\ Compared
    /\ Reported("input_tokens")
    /\ store[baselinePath(call.testName)] = call.before

(***************************************************************************)
(* SpecTrace: a decoded trace in hand, and the views of ExecutionResult    *)
(* applied to it.                                                          *)
(***************************************************************************)
SkillUse(skill) == RawBlock(ContentItem("tool_use", "Skill", SkillInput(skill)))

InitEvent(skills) == ClaudeEvent("system", "init", "", <<>>, 0, NoUsage, skills)

AssistantWith(content) ==
    ClaudeEvent("assistant", "", "assistant", content, 0, NoUsage, <<>>)

TraceEvents ==
    {InitEvent(<<"rwx">>),
     InitEvent(<<>>),
     ClaudeEvent("system", "hook", "", <<>>, 0, NoUsage, <<"rwx", "gha">>),
     AssistantWith(<<SkillUse("rwx"), SkillUse("gha")>>),
     AssistantWith(<<SkillUse("gha"), SkillUse("gha")>>),
     AssistantWith(<<BadBlock,
                     RawBlock(ContentItem("tool_use", "Bash", SkillInput("gha"))),
                     RawBlock(ContentItem("tool_use", "Skill", BadInput))>>),
     AssistantWith(<<RawBlock(ContentItem("tool_use", "Skill", NoInput)),
                     SkillUse(""),
                     RawBlock(ContentItem("text", "Skill", SkillInput("rwx")))>>),
     ClaudeEvent("user", "", "user",
                 <<RawBlock(ContentItem("tool_result", "Bash", NoInput)),
                   RawBlock(ContentItem("tool_use", "", NoInput)),
                   RawBlock(ContentItem("tool_use", "Read", NoInput))>>,
                 0, NoUsage, <<>>),
     ClaudeEvent("result", "success", "", <<>>, 20, TokenUsage(10, 12), <<>>),
     ClaudeEvent("result", "error", "", <<>>, 31, NoUsage, <<>>)}

TracePrompts ==
    {"", "write a config", "/rwx", "/rwx migrate", "/gha", "/", "/ rwx",
     "rwx /rwx", "/rwx\tmigrate", "/rwx\nmigrate this repository"}

TraceResults ==
    {ExecutionResult(events, prompt) :
        events \in SeqsUpTo(TraceEvents, MaxEvents), prompt \in TracePrompts}

InitTrace ==
    /\ files = <<>>
    /\ cfg = NilConfig
    /\ call = NoCall
    /\ tlog = <<>>
    /\ store = EmptyStore
    /\ execResult \in TraceResults
    /\ environ = NoEnviron
    /\ cmd = <<>>

\* r.ResultEvent(): the returned pointer is the index of the event, 0 for nil
CallResultEvent ==
    /\ call' = [op |-> "ResultEvent", evt |-> ResultEvent(execResult)]
    /\ UNCHANGED <<files, cfg, tlog, store, execResult, environ, cmd>>

\* r.ToolNames()
CallToolNames ==
    /\ call' = [op |-> "ToolNames", names |-> ToolNames(execResult)]
    /\ UNCHANGED <<files, cfg, tlog, store, execResult, environ, cmd>>

\* r.ToolUses()
CallToolUses ==
    /\ call' = [op |-> "ToolUses", items |-> ToolUses(execResult)]
    /\ UNCHANGED <<files, cfg, tlog, store, execResult, environ, cmd>>

\* r.isRegisteredSkill(name)
CallIsRegisteredSkill(name) ==
    /\ call' = [op |-> "isRegisteredSkill", name |-> name,
                ret |-> isRegisteredSkill(execResult, name)]
    /\ UNCHANGED <<files, cfg, tlog, store, execResult, environ, cmd>>

\* r.SkillUses()
CallSkillUses ==
    /\ call' = [op |-> "SkillUses", skills |-> SkillUses(execResult)]
    /\ UNCHANGED <<files, cfg, tlog, store, execResult, environ, cmd>>

\* r.Summary()
CallSummary ==
    /\ call' = [op |-> "Summary", err |-> Summary(execResult).err,
                b |-> Summary(execResult).b]
    /\ UNCHANGED <<files, cfg, tlog, store, execResult, environ, cmd>>

NextTrace ==
    \/ CallResultEvent
    \/ \E name \in {"rwx", "gha"} : CallIsRegisteredSkill(name)
    \/ CallToolUses
    \/ CallToolNames
    \/ CallSkillUses
    \/ CallSummary

SpecTrace == InitTrace /\ [][NextTrace]_vars

\* The positions <<event, block>> of the content blocks of a trace.
Blocks(r) ==
    UNION {{<<i, k>> : k \in 1..Len(r.Events[i].Message.Content)} :
               i \in 1..Len(r.Events)}

BlockAt(r, p) == r.Events[p[1]].Message.Content[p[2]]

\* Block p is a tool_use block that decodes.
IsToolUse(r, p) == BlockAt(r, p).decodes /\ BlockAt(r, p).item.Type = "tool_use"

\* Block p is a Skill tool_use block whose input decodes and names skill s.
NamesSkill(r, p, s) ==
    /\ IsToolUse(r, p)
    /\ BlockAt(r, p).item.Name = "Skill"
    /\ ~BlockAt(r, p).item.Input.nil
    /\ BlockAt(r, p).item.Input.decodes
    /\ BlockAt(r, p).item.Input.Skill = s

\* The tool names and the skill names that the blocks of a trace name.
ToolNameSet(r) ==
    {BlockAt(r, p).item.Name : p \in {q \in Blocks(r) : IsToolUse(r, q)}} \ {""}
ToolSkillSet(r) ==
    {"rwx", "gha"} \cap {s \in {"rwx", "gha", ""} :
                            \E p \in Blocks(r) : NamesSkill(r, p, s)}

Elems(xs) == {xs[k] : k \in 1..Len(xs)}

EndsWithResult(r) ==
    r.Events # <<>> /\ r.Events[Len(r.Events)].Type = "result"
HasNoResult(r) == \A i \in 1..Len(r.Events) : r.Events[i].Type # "result"

\* C11 as stated: for a trace whose final element is not a result event,
\* Summary returns an error.
C11_Original_ErrorUnlessLastIsResult ==
    (call.op = "Summary" /\ ~EndsWithResult(execResult)) => call.err

\* C11 (amended): Summary returns an error exactly when the trace holds no
\* result event at any position, and the snapshot returned with the error
\* carries the tool names and the skill names of the blocks of the partial
\* trace; a trace that does not end in a result event but holds an earlier one
\* is summarised from that event, without an error.
C11_SummaryErrorIffNoResultEvent ==
    call.op = "Summary" =>
        /\ call.err <=> HasNoResult(execResult)
        /\ call.err =>
            /\ Elems(call.b.ToolsUsed) = ToolNameSet(execResult)
            /\ ToolSkillSet(execResult) \subseteq Elems(call.b.SkillsUsed)
        /\ (~call.err /\ ~EndsWithResult(execResult)) =>
            \E i \in 1..Len(execResult.Events) :
                /\ execResult.Events[i].Type = "result"
                /\ call.b.ExecutionTimeMS
                       = IntOfHalves(execResult.Events[i].DurationMS)

\* A trace cut off after a Skill tool use: the error comes with the names.
C11_Witness ==
    /\ call.op = "Summary"
    /\ call.err
    /\ call.b.ToolsUsed = <<"Skill">>
    /\ call.b.SkillsUsed = <<"rwx", "gha">>

\* Position p comes before position q in the trace.
Before(p, q) == p[1] < q[1] \/ (p[1] = q[1] /\ p[2] < q[2])

\* The first block that names skill s, for s of ToolSkillSet.
FirstNamed(r, s) ==
    CHOOSE p \in Blocks(r) :
        /\ NamesSkill(r, p, s)
        /\ \A q \in Blocks(r) : NamesSkill(r, q, s) => ~Before(q, p)

IndexOf(xs, x) == CHOOSE k \in 1..Len(xs) : xs[k] = x

NoDuplicates(xs) == \A i, j \in 1..Len(xs) : i # j => xs[i] # xs[j]

\* C12: SkillUses returns one list without duplicates: every non-empty skill
\* named by a decodable Skill tool_use input is in it exactly once, these in
\* the order of their first blocks in the trace, and a skill of the
\* slash-command prompt comes after them and only when no block named it.
C12_SkillUsesMergedNoDuplicates ==
    call.op = "SkillUses" =>
        LET out == call.skills
            named == ToolSkillSet(execResult)
        IN  /\ NoDuplicates(out)
            /\ named \subseteq Elems(out)
            /\ Len(out) <= Cardinality(named) + 1
            /\ \A a, b \in named :
                   Before(FirstNamed(execResult, a), FirstNamed(execResult, b))
                       => IndexOf(out, a) < IndexOf(out, b)
            /\ \A k \in 1..Len(out) :
                   out[k] \notin named => k = Len(out)

\* The slash command names a registered skill that a Skill block also named,
\* before another skill: it is listed once, at its block's place.
C12_Witness ==
    /\ call.op = "SkillUses"
    /\ execResult.Prompt = "/rwx"
    /\ isRegisteredSkill(execResult, "rwx")
    /\ ToolSkillSet(execResult) = {"rwx", "gha"}
    /\ call.skills = <<"rwx", "gha">>

\* The name the slash command of a prompt may stand for: what follows the "/"
\* at the head of the prompt.
FollowsSlash(prompt, s) == HasPrefix(prompt, "/" \o s)

HasInitEvent(r) ==
    \E i \in 1..Len(r.Events) :
        r.Events[i].Type = "system" /\ r.Events[i].Subtype = "init"

ListedByInit(r, s) ==
    \E i \in 1..Len(r.Events) :
        /\ r.Events[i].Type = "system"
        /\ r.Events[i].Subtype = "init"
        /\ s \in Elems(r.Events[i].Skills)

\* C13: a skill that SkillUses lists and that no Skill block names was taken
\* from a prompt that starts with "/", and is listed by a system/init event of
\* the trace; with no init event, with an init event that does not list it, or
\* with a prompt that does not start with "/", SkillUses lists exactly the
\* skills that the blocks name.
C13_SlashSkillOnlyIfRegistered ==
    call.op = "SkillUses" =>
        LET added == Elems(call.skills) \ ToolSkillSet(execResult)
        IN  /\ \A s \in added :
                   /\ FollowsSlash(execResult.Prompt, s)
                   /\ ListedByInit(execResult, s)
            /\ ~HasInitEvent(execResult) => added = {}
            /\ ~HasPrefix(execResult.Prompt, "/") => added = {}

\* A slash command of a registered skill that no block named is listed.
C13_Witness ==
    /\ call.op = "SkillUses"
    /\ execResult.Prompt = "/rwx migrate"
    /\ ToolSkillSet(execResult) = {"gha"}
    /\ call.skills = <<"gha", "rwx">>

\* C14: ResultEvent returns the last event of type "result": nil exactly when
\* the sequence (the empty one included) holds no such event, never an event
\* of another type, and never a result event that a later one follows.
C14_ResultEventIsLastResult ==
    call.op = "ResultEvent" =>
        LET events == execResult.Events
        IN  /\ call.evt = 0 <=> HasNoResult(execResult)
            /\ call.evt # 0 =>
                /\ call.evt \in 1..Len(events)
                /\ events[call.evt].Type = "result"
                /\ \A j \in (call.evt + 1)..Len(events) :
                       events[j].Type # "result"

\* Two result events: the later one is returned.
C14_Witness ==
    /\ call.op = "ResultEvent"
    /\ Len(execResult.Events) = 2
    /\ execResult.Events[1].Type = "result"
    /\ execResult.Events[1] # execResult.Events[2]
    /\ call.evt = 2

(***************************************************************************)
(* RunClaude: the repository root, the agent's arguments, the child        *)
(* process under the caller's context, and the decoding of its output.     *)
(* A path is a clean absolute path string; the process environment is      *)
(* [CI, EVALS_SKIP_PERMISSIONS, SKILLS_REPO_ROOT, EVALS_MAX_BUDGET_USD,     *)
(* cwd, dirs, claude]: dirs the directories that exist, claude whether the *)
(* agent binary can be started.                                            *)
(***************************************************************************)
\* The index of the last "/" of s at or before i, 0 if none.
RECURSIVE LastSlash(_, _)
LastSlash(s, i) ==
    IF i < 1 THEN 0
    ELSE IF SubSeq(s, i, i) = "/" THEN i
    ELSE LastSlash(s, i - 1)

\* filepath.Dir of a clean absolute path
Dir(path) ==
    LET k == LastSlash(path, Len(path))
    IN  IF k <= 1 THEN "/" ELSE SubSeq(path, 1, k - 1)

\* filepath.Join(dir, name)
Join(dir, name) ==
    IF dir # "" /\ SubSeq(dir, Len(dir), Len(dir)) = "/"
    THEN dir \o name
    ELSE dir \o "/" \o name

\* isDir: os.Stat succeeds and reports a directory
isDir(e, path) == path \in e.dirs

\* looksLikeRepoRoot
looksLikeRepoRoot(e, dir) ==
    \/ isDir(e, Join(dir, "skills")) /\ isDir(e, Join(dir, "evals"))
    \/ isDir(e, Join(dir, ".git"))

\* The loop of repoRoot, at dir: [err, root, visited], visited the
\* directories looksLikeRepoRoot was called on, in order.
RECURSIVE RepoRootWalk(_, _)
RepoRootWalk(e, dir) ==
    IF looksLikeRepoRoot(e, dir)
    THEN [err |-> "", root |-> dir, visited |-> <<dir>>]
    ELSE IF Dir(dir) = dir
    THEN [err |-> "could not find repository root", root |-> "",
          visited |-> <<dir>>]
    ELSE LET rest == RepoRootWalk(e, Dir(dir))
         IN  [rest EXCEPT !.visited = <<dir>> \o @]

\* A plausible slip: an override that is no root is passed over.
repoRootIgnoresBadOverride(e) ==
    IF e.SKILLS_REPO_ROOT # "" /\ looksLikeRepoRoot(e, e.SKILLS_REPO_ROOT)
    THEN [err |-> "", root |-> e.SKILLS_REPO_ROOT,
          visited |-> <<e.SKILLS_REPO_ROOT>>]
    ELSE RepoRootWalk(e, e.cwd)

\* repoRoot: [err, root, visited], err "" for nil
repoRoot(e) ==
    IF e.SKILLS_REPO_ROOT # ""
    THEN IF looksLikeRepoRoot(e, e.SKILLS_REPO_ROOT)
         THEN [err |-> "", root |-> e.SKILLS_REPO_ROOT,
               visited |-> <<e.SKILLS_REPO_ROOT>>]
         ELSE [err |-> "SKILLS_REPO_ROOT does not look like the skills repository root",
               root |-> "", visited |-> <<e.SKILLS_REPO_ROOT>>]
    ELSE RepoRootWalk(e, e.cwd)

DefaultMaxBudgetUSD == "5.00"

\* Arguments that skip the permission checks only when CI is set.
ClaudeArgsCIOnly(e, root) ==
    <<"--print", "--output-format", "json", "--no-session-persistence",
      "--verbose", "--model", "sonnet", "--plugin-dir", root,
      "--max-budget-usd",
      IF e.EVALS_MAX_BUDGET_USD # "" THEN e.EVALS_MAX_BUDGET_USD
      ELSE DefaultMaxBudgetUSD>>
    \o (IF e.CI # "" THEN <<"--dangerously-skip-permissions">> ELSE <<>>)

\* The args of RunClaude
ClaudeArgs(e, root) ==
    <<"--print", "--output-format", "json", "--no-session-persistence",
      "--verbose", "--model", "sonnet", "--plugin-dir", root,
      "--max-budget-usd",
      IF e.EVALS_MAX_BUDGET_USD # "" THEN e.EVALS_MAX_BUDGET_USD
      ELSE DefaultMaxBudgetUSD>>
    \o (IF e.CI # "" \/ e.EVALS_SKIP_PERMISSIONS # ""
        THEN <<"--dangerously-skip-permissions">> ELSE <<>>)

\* The bytes of the child's stdout, as the JSON text they are: null, an array
\* of values, an object, a number, or text that is not JSON.
JSONObject(fields) == [json |-> "object", fields |-> fields]
JSONNumber(n) == [json |-> "number", n |-> n]
NotJSON(text) == [json |-> "malformed", text |-> text]

\* json.Unmarshal(raw, &events) into []ClaudeEvent: [err, events]
UnmarshalEvents(raw) ==
    IF raw.json = "null" THEN [err |-> FALSE, events |-> <<>>]
    ELSE IF /\ raw.json = "array"
            /\ \A k \in 1..Len(raw.items) : raw.items[k].json = "object"
    THEN [err |-> FALSE,
          events |-> [k \in 1..Len(raw.items) |-> raw.items[k].fields]]
    ELSE [err |-> TRUE, events |-> <<>>]

\* The error values of RunClaude
NoError == [nil |-> TRUE]
RepoRootError(cause) ==
    [nil |-> FALSE, msg |-> "finding repo root", cause |-> cause]
RunError(cause, errout, out) ==
    [nil |-> FALSE, msg |-> "claude exited with error", cause |-> cause,
     stderr |-> errout, stdout |-> out]
\* A parse error that leaves the output out.
ParseErrorDropsRaw(out) ==
    [nil |-> FALSE, msg |-> "parsing claude output", raw |-> NotJSON("")]

ParseError(out) ==
    [nil |-> FALSE, msg |-> "parsing claude output", raw |-> out]

\* &ExecutionResult{Events, RawOutput, Prompt}
RunResult(events, raw, prompt) ==
    [Events |-> events, RawOutput |-> raw, Prompt |-> prompt]

\* exec.CommandContext(ctx, "claude", args...) with Dir and Stdin set, started:
\* how the child ended (state, by, code) and what it wrote are set when it
\* ends; run is the number of the RunClaude call that started it.
Child(run, args, dir, stdin) ==
    [run |-> run, Path |-> "claude", Args |-> args, Dir |-> dir,
     Stdin |-> stdin,
     state |-> "running", by |-> "", code |-> 0,
     stdout |-> NotJSON(""), stderr |-> ""]

\* The child that a waiting RunClaude waits for.
LastChild == cmd[Len(cmd)]

Waiting == call.op = "RunClaude" /\ call.pc = "waiting"
Returned == call.op = "RunClaude" /\ call.pc = "returned"

\* The call record of RunClaude: its arguments, whether ctx is done, how many
\* children it has started, where it is, and what it returned.
RunCall(n, prompt, workDir, ctxDone, launched, pc, err, result) ==
    [op |-> "RunClaude", n |-> n, prompt |-> prompt, workDir |-> workDir,
     ctxDone |-> ctxDone, launched |-> launched, pc |-> pc,
     err |-> err, result |-> result]

\* RunClaude(ctx, prompt, workDir) up to the point where cmd.Run blocks, ctx
\* being already done (expired) or not: it returns at once when the root is
\* not found or when the child cannot be started.
RunClaude(prompt, workDir, expired) ==
    /\ call = NoCall \/ (Returned /\ call.n < MaxRuns)
    /\ LET n == IF call = NoCall THEN 1 ELSE call.n + 1
           rr == repoRoot(environ)
           fail(e) == /\ call' = RunCall(n, prompt, workDir, expired, 0,
                                          "returned", e, NilResult)
                      /\ execResult' = NilResult
                      /\ cmd' = cmd
       IN  IF rr.err # "" THEN fail(RepoRootError(rr.err))
           ELSE IF expired
           THEN fail(RunError("context deadline exceeded", "", NotJSON("")))
           ELSE IF ~environ.claude
           THEN fail(RunError("executable file not found in $PATH", "",
                              NotJSON("")))
           ELSE /\ cmd' = Append(cmd, Child(n, ClaudeArgs(environ, rr.root),
                                            workDir, prompt))
                /\ call' = RunCall(n, prompt, workDir, FALSE, 1, "waiting",
                                   NoError, NilResult)
                /\ execResult' = execResult
    /\ UNCHANGED <<files, cfg, tlog, store, environ>>

\* The child exits with a status, having written out and errout.
ChildExits(code, out, errout) ==
    /\ Waiting
    /\ LastChild.state = "running"
    /\ cmd' = [cmd EXCEPT ![Len(cmd)] =
                  [@ EXCEPT !.state = "exited", !.code = code,
                            !.stdout = out, !.stderr = errout]]
    /\ UNCHANGED <<files, cfg, call, tlog, store, execResult, environ>>

\* The child is killed by a signal that is not RunClaude's doing.
ChildSignalled(out, errout) ==
    /\ Waiting
    /\ LastChild.state = "running"
    /\ cmd' = [cmd EXCEPT ![Len(cmd)] =
                  [@ EXCEPT !.state = "killed", !.by = "signal",
                            !.stdout = out, !.stderr = errout]]
    /\ UNCHANGED <<files, cfg, call, tlog, store, execResult, environ>>

\* The caller's deadline elapses while RunClaude waits.
DeadlineElapses ==
    /\ Waiting
    /\ ~call.ctxDone
    /\ call' = [call EXCEPT !.ctxDone = TRUE]
    /\ UNCHANGED <<files, cfg, tlog, store, execResult, environ, cmd>>

\* exec's context watcher: ctx is done and the child still runs, so it is
\* killed (os.Process.Kill), having written out and errout so far.
KillChild(out, errout) ==
    /\ Waiting
    /\ call.ctxDone
    /\ LastChild.state = "running"
    /\ cmd' = [cmd EXCEPT ![Len(cmd)] =
                  [@ EXCEPT !.state = "killed", !.by = "deadline",
                            !.stdout = out, !.stderr = errout]]
    /\ UNCHANGED <<files, cfg, call, tlog, store, execResult, environ>>

\* What cmd.Run returns for an ended child: "" for nil. A killed child and a
\* non-zero exit are an *exec.ExitError that prints the wait status; a child
\* that exited 0 is nil, or ctx.Err() when (late) ctx was done and the kill
\* reached the exited child before it was reaped.
RunErr(child, late) ==
    IF child.state = "killed" THEN "signal: killed"
    ELSE IF child.code # 0 THEN "exit status " \o ToString(child.code)
    ELSE IF late THEN "context deadline exceeded"
    ELSE ""

\* RunClaude from the return of cmd.Run on: [err, result]
AfterRun(child, late, prompt) ==
    LET runErr == RunErr(child, late)
        raw == child.stdout
        dec == UnmarshalEvents(raw)
    IN  IF runErr # ""
        THEN [err |-> RunError(runErr, child.stderr, child.stdout),
              result |-> NilResult]
        ELSE IF dec.err
        THEN [err |-> ParseError(child.stdout), result |-> NilResult]
        ELSE [err |-> NoError, result |-> RunResult(dec.events, raw, prompt)]

\* cmd.Run returns and RunClaude runs to its return.
RunClaudeReturns(late) ==
    /\ Waiting
    /\ LastChild.state # "running"
    /\ late => call.ctxDone
    /\ LET ret == AfterRun(LastChild, late, call.prompt)
       IN  /\ call' = [call EXCEPT !.pc = "returned", !.err = ret.err,
                                   !.result = ret.result]
           /\ execResult' = ret.result
    /\ UNCHANGED <<files, cfg, tlog, store, environ, cmd>>

(***************************************************************************)
(* SpecRun: RunClaude called in an environment, the child and the caller's *)
(* deadline running their course.                                          *)
(***************************************************************************)
Environ(ci, skip, root, budget, cwd, dirs, claude) ==
    [CI |-> ci, EVALS_SKIP_PERMISSIONS |-> skip, SKILLS_REPO_ROOT |-> root,
     EVALS_MAX_BUDGET_USD |-> budget, cwd |-> cwd, dirs |-> dirs,
     claude |-> claude]

\* Working directories and directory trees: [root, cwd, dirs]
RunPlaces ==
    {[root |-> "", cwd |-> "/w/evals/integration",
      dirs |-> {"/", "/w", "/w/skills", "/w/evals", "/w/evals/integration"}],
     [root |-> "", cwd |-> "/w/evals",
      dirs |-> {"/", "/w", "/w/.git", "/w/evals"}],
     [root |-> "", cwd |-> "/w/evals",
      dirs |-> {"/", "/w", "/w/evals"}],
     [root |-> "/w", cwd |-> "/w/evals",
      dirs |-> {"/", "/w", "/w/evals"}],
     [root |-> "/r", cwd |-> "/w/evals",
      dirs |-> {"/", "/w", "/w/evals", "/r", "/r/skills", "/r/evals"}]}

RunEnvirons ==
    {Environ(ci, skip, pl.root, "", pl.cwd, pl.dirs, TRUE) :
        ci \in {"", "true"}, skip \in {"", "1"}, pl \in RunPlaces}
    \cup {Environ("", "", "", "", "/w/evals", {"/", "/w", "/w/.git", "/w/evals"},
                  FALSE),
          Environ("", "", "", "1.00", "/w/evals",
                  {"/", "/w", "/w/.git", "/w/evals"}, TRUE)}

RunPrompts == {"write a config", "/rwx"}
RunWorkDirs == {"/tmp/work"}

\* What the child may have written when it ends: stdout and stderr.
RunResultEvent ==
    ClaudeEvent("result", "success", "", <<>>, 20, TokenUsage(10, 12), <<>>)
StdoutDocs ==
    {JSONNull,
     JSONArray(<<>>),
     JSONArray(<<JSONObject(InitEvent(<<"rwx">>)), JSONObject(RunResultEvent)>>),
     JSONArray(<<JSONObject(RunResultEvent), JSONNumber(1)>>),
     JSONObject(RunResultEvent),
     NotJSON("[{"),
     NotJSON("")}
ChildEnds ==
    {[code |-> 0, stdout |-> out, stderr |-> ""] : out \in StdoutDocs}
    \cup {[code |-> 1, stdout |-> NotJSON("[{"), stderr |-> "boom"],
          [code |-> 1, stdout |-> JSONArray(<<JSONObject(RunResultEvent)>>),
           stderr |-> ""]}
ChildCuts == {[stdout |-> NotJSON("[{"), stderr |-> "working"]}

InitRun ==
    /\ files = <<>>
    /\ cfg = NilConfig
    /\ call = NoCall
    /\ tlog = <<>>
    /\ store = EmptyStore
    /\ execResult = NilResult
    /\ environ \in RunEnvirons
    /\ cmd = <<>>

NextRun ==
    \/ \E prompt \in RunPrompts, workDir \in RunWorkDirs, expired \in BOOLEAN :
           RunClaude(prompt, workDir, expired)
    \/ \E end \in ChildEnds : ChildExits(end.code, end.stdout, end.stderr)
    \/ \E cut \in ChildCuts : ChildSignalled(cut.stdout, cut.stderr)
    \/ DeadlineElapses
    \/ \E cut \in ChildCuts : KillChild(cut.stdout, cut.stderr)
    \/ \E late \in BOOLEAN : RunClaudeReturns(late)

SpecRun == InitRun /\ [][NextRun]_vars

SkipsPermissions(child) ==
    \E k \in 1..Len(child.Args) :
        child.Args[k] = "--dangerously-skip-permissions"

\* C15: an agent subprocess is given --dangerously-skip-permissions exactly
\* when CI or EVALS_SKIP_PERMISSIONS is non-empty in the environment of the
\* call, whatever the prompt, the working directory and the other settings.
C15_PermissionBypassIffOptedIn ==
    \A k \in 1..Len(cmd) :
        SkipsPermissions(cmd[k])
            <=> (environ.CI # "" \/ environ.EVALS_SKIP_PERMISSIONS # "")

\* A local run that opted in with EVALS_SKIP_PERMISSIONS alone.
C15_Witness ==
    /\ cmd # <<>>
    /\ environ.CI = ""
    /\ environ.EVALS_SKIP_PERMISSIONS # ""
    /\ SkipsPermissions(cmd[1])

\* The directories from the working directory up to "/".
Ancestors(path) ==
    {"/"} \cup {SubSeq(path, 1, k) : k \in {j \in 1..Len(path) :
                   j = Len(path) \/ SubSeq(path, j + 1, j + 1) = "/"}}

\* A repository root can be found in environment e.
RootFound(e) ==
    IF e.SKILLS_REPO_ROOT # "" THEN looksLikeRepoRoot(e, e.SKILLS_REPO_ROOT)
    ELSE \E dir \in Ancestors(e.cwd) : looksLikeRepoRoot(e, dir)

\* The children that call number n started.
StartedBy(n) == {k \in 1..Len(cmd) : cmd[k].run = n}

\* Stdout that is the JSON text of a list of event objects (null: of none).
IsEventList(doc) ==
    \/ doc.json = "null"
    \/ doc.json = "array"
         /\ \A k \in 1..Len(doc.items) : doc.items[k].json = "object"
EventsOf(doc) ==
    IF doc.json = "null" THEN <<>>
    ELSE [k \in 1..Len(doc.items) |-> doc.items[k].fields]

IsDeadlineExceeded(err) ==
    ~err.nil /\ err.msg = "claude exited with error"
             /\ err.cause = "context deadline exceeded"

\* C17: RunClaude does not return while its child runs; and when the deadline
\* elapsed first and the child was terminated for it, the error RunClaude
\* returns is a cancellation/timeout condition, which the error for a child
\* that ended otherwise is not.
C17_DeadlineErrorIsTimeoutCondition ==
    (Returned /\ call.launched = 1) =>
        LET child == cmd[CHOOSE k \in StartedBy(call.n) : TRUE]
        IN  /\ child.state # "running"
            /\ (child.state = "killed" /\ child.by = "deadline")
                   => IsDeadlineExceeded(call.err)
            /\ ~call.ctxDone => ~IsDeadlineExceeded(call.err)

(***************************************************************************)
(* SpecAssert: a config parsed from one document, and assertions of every  *)
(* kind checked against it one after another.                              *)
(***************************************************************************)
AssertRawTasks ==
    {RawTask("code", "git/clone 2.0.2", "", AbsentNode, AbsentNode, NoEnv,
             [k \in {"token"} |-> StrVal("${{ vaults.v.secrets.TOKEN }}")],
             "", NoBG),
     RawTask("test", "", "export DB_URL=x && go test ./...",
             ScalarNode("code"), AbsentNode,
             [k \in {"API_KEY"} |-> "${{ secrets.API_KEY }}"],
             [k \in {"depth"} |-> OtherVal],
             "${{ init.ci }}",
             <<BGProcess("redis", "redis-server", "redis-cli ping")>>),
     RawTask("deploy", "", "./deploy.sh ${{ secrets.DEPLOY_TOKEN }}",
             SeqNode(<<ScalarNode("test")>>),
             AbsentNode, NoEnv, NoWith, "", NoBG)}

AssertDocs == SeqsUpTo(AssertRawTasks, MaxTasks)

Assertions ==
    {HasTask("code"), HasTask("missing"), HasPackage("git/clone"),
     HasRunContaining("go test"), HasRunContaining("deploy"),
     TaskDependsOn("test", "code"), HasService("redis"),
     HasEnvVar("DB_URL"), HasEnvVar("API_KEY"),
     HasEnvVar("MISSING_VAR"), HasEnvVar("URL"), HasEnvVar("token"),
     HasSecretRef("TOKEN"), HasSecretRef("API_KEY"),
     HasSecretRef("DEPLOY_TOKEN"), HasSecretRef("OTHER_TOKEN"),
     HasSecretRef("DEPLOY"), HasSecretRef("depth"),
     TaskDependsOn("test", "deploy"), TaskDependsOn("deploy", "test"),
     TaskDependsOn("missing", "code"), TaskDependsOn("code", "code"),
     HasConditional("code"), HasConditional("missing"),
     HasConditional("test"), MinTaskCount(2),
     Either("deploys", <<HasTask("missing"), HasRunContaining("deploy")>>)}

InitAssert ==
    /\ \E doc \in AssertDocs :
          /\ files = <<File(doc)>>
          /\ cfg = ParseRWXConfig(doc).cfg
    /\ call = NoCall
    /\ tlog = <<>>
    /\ store = EmptyStore
    /\ NoRun

\* cfg.DependsOn(taskKey, dep), as the tests call it
CallDependsOn(taskKey, dep) ==
    /\ call' = [op |-> "DependsOn", taskKey |-> taskKey, dep |-> dep,
                ret |-> DependsOn(cfg, taskKey, dep)]
    /\ tlog' = <<>>
    /\ UNCHANGED <<files, cfg, store, execResult, environ, cmd>>

AssertKeys == {"code", "test", "deploy", "missing"}

NextAssert ==
    \/ \E a \in Assertions : RunAssertion(a)
    \/ \E taskKey \in AssertKeys, dep \in AssertKeys :
           CallDependsOn(taskKey, dep)

SpecAssert == InitAssert /\ [][NextAssert]_vars

\* The config as it was parsed from the document.
Pristine == ParseRWXConfig(files[1].data).cfg

StringFields(t) ==
    {t.Run} \cup {t.Env[k] : k \in DOMAIN t.Env}
            \cup {t.With[k].s : k \in {j \in DOMAIN t.With : t.With[j].isString}}

\* The characters a secret's name is written with.
NameChars ==
    "ABCDEFGHIJKLMNOPQRSTUVWXYZabcdefghijklmnopqrstuvwxyz0123456789_"

\* text has needle at position i.
OccursAt(text, needle, i) ==
    /\ i + Len(needle) - 1 <= Len(text)
    /\ SubSeq(text, i, i + Len(needle) - 1) = needle

\* text has the expression secrets.<name>, the name ending where it ends.
RefersToSecret(text, name) ==
    LET needle == "secrets." \o name
    IN  \E i \in 1..Len(text) :
            /\ OccursAt(text, needle, i)
            /\ \/ i + Len(needle) > Len(text)
               \/ ~Contains(NameChars, SubSeq(text, i + Len(needle),
                                              i + Len(needle)))

\* text has the text secrets.<name> somewhere.
HasSecretText(text, name) ==
    \E i \in 1..Len(text) : OccursAt(text, "secrets." \o name, i)

HasSecretRefRan ==
    /\ call.op = "Check"
    /\ call.assertion.kind = "HasSecretRef"

\* C21 as stated: HasSecretRef(name) passes only if some task refers to the
\* secret named name, and fails for a name that no task refers to.
C21_Original_PassesOnlyIfSecretReferenced ==
    HasSecretRefRan =>
        (tlog = <<>>
            <=> \E i \in 1..Len(cfg.Tasks) :
                    \E text \in StringFields(cfg.Tasks[i]) :
                        RefersToSecret(text, call.assertion.secretName))

\* C21: HasSecretRef(name) passes iff the text secrets.<name> occurs in the
\* run script, in an env value or in a string-valued with entry of some task
\* (so both ${{ secrets.N }} and ${{ vaults.V.secrets.N }} are found, and so
\* is a longer name that starts with N); otherwise it fails with one error
\* that names the secret.
C21_HasSecretRefIffTextOccurs ==
    HasSecretRefRan =>
        IF \E i \in 1..Len(cfg.Tasks) :
              \E text \in StringFields(cfg.Tasks[i]) :
                  HasSecretText(text, call.assertion.secretName)
        THEN tlog = <<>>
        ELSE /\ Len(tlog) = 1
             /\ tlog[1].args = <<call.assertion.secretName>>

\* DEPLOY passed on a config whose only mention of it is the reference to
\* DEPLOY_TOKEN in a run script.
C21_Witness ==
    /\ HasSecretRefRan
    /\ call.assertion.secretName = "DEPLOY"
    /\ tlog = <<>>
    /\ Len(cfg.Tasks) = 1
    /\ cfg.Tasks[1].Key = "deploy"

HasEnvVarRan ==
    /\ call.op = "Check"
    /\ call.assertion.kind = "HasEnvVar"

\* The run script has key with "=" right after it.
AssignsInRun(t, key) ==
    \E i \in 1..Len(t.Run) :
        /\ OccursAt(t.Run, key, i)
        /\ i + Len(key) <= Len(t.Run)
        /\ SubSeq(t.Run, i + Len(key), i + Len(key)) = "="

\* C22: HasEnvVar(key) passes iff some task has key as a key of its env map
\* or has key immediately followed by "=" in its run script; when neither
\* holds for any task, the empty config included, it fails with one error
\* that names the key.
C22_HasEnvVarIffKeyOrAssignment ==
    HasEnvVarRan =>
        IF \E i \in 1..Len(cfg.Tasks) :
              \/ call.assertion.envKey \in DOMAIN cfg.Tasks[i].Env
              \/ AssignsInRun(cfg.Tasks[i], call.assertion.envKey)
        THEN tlog = <<>>
        ELSE /\ Len(tlog) = 1
             /\ tlog[1].args = <<call.assertion.envKey>>

\* DB_URL passed on a config where no env map has it and the second task's
\* run script exports it.
C22_Witness ==
    /\ HasEnvVarRan
    /\ call.assertion.envKey = "DB_URL"
    /\ tlog = <<>>
    /\ Len(cfg.Tasks) = 2
    /\ \A i \in 1..2 : "DB_URL" \notin DOMAIN cfg.Tasks[i].Env
    /\ ~AssignsInRun(cfg.Tasks[1], "DB_URL")
    /\ AssignsInRun(cfg.Tasks[2], "DB_URL")

\* No task of the config has the key.
Absent(key) == \A i \in 1..Len(cfg.Tasks) : cfg.Tasks[i].Key # key

\* The task a key stands for: the first one of the config that has it.
TheTask(key) ==
    cfg.Tasks[CHOOSE i \in 1..Len(cfg.Tasks) :
                  /\ cfg.Tasks[i].Key = key
                  /\ \A j \in 1..(i - 1) : cfg.Tasks[j].Key # key]

\* C23: a lookup miss is a failed result.  For a key that no task has,
\* DependsOn returns false whatever the dependency, and TaskDependsOn and
\* HasConditional each report one failure; for a key that a task has,
\* DependsOn is true and TaskDependsOn passes iff the dependency is an
\* element of the task's use list, and HasConditional passes iff the task's
\* if expression is non-empty.
C23_LookupMissIsFailure ==
    /\ call.op = "DependsOn" =>
          IF Absent(call.taskKey) THEN call.ret = FALSE
          ELSE call.ret <=> call.dep \in Elems(TheTask(call.taskKey).Use)
    /\ (call.op = "Check" /\ call.assertion.kind = "TaskDependsOn") =>
          IF Absent(call.assertion.taskKey) THEN Len(tlog) = 1
          ELSE tlog = <<>>
                 <=> call.assertion.dep
                        \in Elems(TheTask(call.assertion.taskKey).Use)
    /\ (call.op = "Check" /\ call.assertion.kind = "HasConditional") =>
          IF Absent(call.assertion.taskKey) THEN Len(tlog) = 1
          ELSE tlog = <<>> <=> TheTask(call.assertion.taskKey).If # ""

\* DependsOn was asked about a task that the config of two tasks does not
\* have, for a dependency that is a task of the config.
C23_Witness ==
    /\ call.op = "DependsOn"
    /\ call.taskKey = "missing"
    /\ call.dep = "code"
    /\ call.ret = FALSE
    /\ Len(cfg.Tasks) = 2
    /\ ~Absent("code")

(***************************************************************************)
(* SpecParallel: two tests of one package running in parallel, each        *)
(* calling AssertNoRegression with its own results.  A call takes a step   *)
(* up to each access to the baseline storage: the summary, then the write  *)
(* in record mode, or the read and then the comparison.  call and tlog     *)
(* hold one entry per test.                                                *)
(***************************************************************************)
ParallelTests == {"TestGo", "TestGoRedis"}

ResultWith(in, out, halfMS) ==
    ExecutionResult(<<ClaudeEvent("result", "success", "", <<>>, halfMS,
                                  TokenUsage(in, out), <<>>)>>,
                    "write a config")

\* The results a test's runs of the agent come back with; no result of one
\* test has the snapshot of a result of the other.
ResultsOf(testName) ==
    IF testName = "TestGo"
    THEN {ResultWith(10, 10, 20), ResultWith(13, 14, 20),
          ExecutionResult(<<>>, "write a config")}
    ELSE {ResultWith(50, 40, 60), ResultWith(51, 60, 60)}

\* A test that is not inside AssertNoRegression.
Idle(calls, saved, paths) ==
    [pc |-> "idle", calls |-> calls, saved |-> saved, paths |-> paths]

InitParallel ==
    /\ files = <<>>
    /\ cfg = NilConfig
    /\ call = [n \in ParallelTests |-> Idle(0, {}, {})]
    /\ tlog = [n \in ParallelTests |-> <<>>]
    /\ store = [p \in {baselinePath(n) : n \in ParallelTests} |-> NoFile]
    /\ NoRun

\* AssertNoRegression up to its first use of the storage: the summary, and
\* the fatal failure if there is none.
EnterAssertNoRegression(n, result, upd) ==
    /\ call[n].pc = "idle"
    /\ call[n].calls < MaxCalls
    /\ LET current == Summary(result)
           c == call[n]
       IN  IF current.err
           THEN /\ call' = [call EXCEPT ![n] =
                               Idle(c.calls + 1, c.saved, c.paths)]
                /\ tlog' = [tlog EXCEPT ![n] =
                               <<Fatalf("extracting summary")>>]
           ELSE /\ call' = [call EXCEPT ![n] =
                               [pc |-> "summarised", calls |-> c.calls + 1,
                                saved |-> c.saved, paths |-> c.paths,
                                update |-> upd, current |-> current.b]]
                /\ tlog' = [tlog EXCEPT ![n] = <<>>]
    /\ UNCHANGED <<files, cfg, store, execResult, environ, cmd>>

\* -update: SaveBaseline(t.Name(), current), the log line and the return
WriteBaseline(n) ==
    /\ call[n].pc = "summarised"
    /\ call[n].update
    /\ store' = SaveBaseline(store, n, call[n].current)
    /\ call' = [call EXCEPT ![n] =
                   Idle(call[n].calls,
                        call[n].saved \cup {call[n].current},
                        call[n].paths \cup {baselinePath(n)})]
    /\ tlog' = [tlog EXCEPT ![n] = <<Logf("updated baseline")>>]
    /\ UNCHANGED <<files, cfg, execResult, environ, cmd>>

\* LoadBaseline(t.Name())
ReadBaseline(n) ==
    /\ call[n].pc = "summarised"
    /\ ~call[n].update
    /\ call' = [call EXCEPT ![n] =
                   [pc |-> "loaded", calls |-> call[n].calls,
                    saved |-> call[n].saved,
                    paths |-> call[n].paths \cup {baselinePath(n)},
                    update |-> FALSE, current |-> call[n].current,
                    prev |-> LoadBaseline(store, n)]]
    /\ UNCHANGED <<files, cfg, tlog, store, execResult, environ, cmd>>

\* The rest of AssertNoRegression: the warning, or the three thresholds.
CompareLoaded(n) ==
    /\ call[n].pc = "loaded"
    /\ tlog' = [tlog EXCEPT ![n] =
                   IF call[n].prev.err THEN <<Fatalf("loading baseline")>>
                   ELSE IF call[n].prev.nil
                   THEN <<Logf("WARNING: no baseline found")>>
                   ELSE CompareMetrics(call[n].prev.b, call[n].current).errs]
    /\ call' = [call EXCEPT ![n] =
                   Idle(call[n].calls, call[n].saved, call[n].paths)]
    /\ UNCHANGED <<files, cfg, store, execResult, environ, cmd>>

NextParallel ==
    \E n \in ParallelTests :
        \/ \E r \in ResultsOf(n), upd \in BOOLEAN :
               EnterAssertNoRegression(n, r, upd)
        \/ WriteBaseline(n)
        \/ ReadBaseline(n)
        \/ CompareLoaded(n)

SpecParallel == InitParallel /\ [][NextParallel]_vars

\* The snapshots of the results a test can have.
SnapshotsOf(n) ==
    {Summary(r).b : r \in {x \in ResultsOf(n) : ~Summary(x).err}}

\* C24: whatever the interleaving of the calls of two tests with different
\* names, no file is read or written by both tests, a stored file that a
\* test has used holds a snapshot that this test stored, and the baseline a
\* test has loaded to compare against is a snapshot that this test stored.
C24_BaselinesKeyedPerTest ==
    \A n \in ParallelTests :
        /\ \A m \in ParallelTests \ {n} :
               call[n].paths \cap call[m].paths = {}
        /\ \A p \in call[n].paths :
               store[p].exists =>
                   /\ UnmarshalBaseline(store[p].data) \in call[n].saved
                   /\ UnmarshalBaseline(store[p].data) \in SnapshotsOf(n)
        /\ (call[n].pc = "loaded" /\ ~call[n].prev.nil) =>
               call[n].prev.b \in call[n].saved

\* One test has loaded its stored baseline and not yet compared, while the
\* other, having stored one already, is between its summary and its write.
C24_Witness ==
    /\ call["TestGo"].pc = "loaded"
    /\ ~call["TestGo"].prev.nil
    /\ call["TestGoRedis"].pc = "summarised"
    /\ call["TestGoRedis"].update
    /\ store[baselinePath("TestGoRedis")].exists
    /\ call["TestGoRedis"].current
           # UnmarshalBaseline(store[baselinePath("TestGoRedis")].data)

(***************************************************************************)
(* SpecRoot: repoRoot called in a working directory of a small directory   *)
(* tree, every placement of the markers in it, with and without the        *)
(* SKILLS_REPO_ROOT override.                                              *)
(***************************************************************************)
\* The directories a tree may have besides "/".
RootCandidates ==
    {"/.git", "/w", "/w/.git", "/w/skills", "/w/evals", "/w/evals/.git",
     "/w/evals/skills", "/w/evals/evals"}

\* The trees: every directory's parent is a directory.
RootTrees ==
    {ds \cup {"/"} : ds \in {x \in SUBSET RootCandidates :
                                 \A d \in x : Dir(d) \in x \cup {"/"}}}

RootOverrides == {"", "/w", "/w/evals", "/gone"}

RootEnvirons ==
    {Environ("", "", root, "", cwd, dirs, TRUE) :
        root \in RootOverrides, cwd \in {"/", "/w", "/w/evals"},
        dirs \in RootTrees}

InitRoot ==
    /\ files = <<>>
    /\ cfg = NilConfig
    /\ call = NoCall
    /\ tlog = <<>>
    /\ store = EmptyStore
    /\ execResult = NilResult
    /\ environ \in {e \in RootEnvirons : e.cwd \in e.dirs}
    /\ cmd = <<>>

\* repoRoot(), as RunClaude calls it
CallRepoRoot ==
    /\ call' = [op |-> "repoRoot", err |-> repoRoot(environ).err,
                root |-> repoRoot(environ).root,
                visited |-> repoRoot(environ).visited]
    /\ UNCHANGED <<files, cfg, tlog, store, execResult, environ, cmd>>

\* looksLikeRepoRoot(dir)
CallLooksLikeRepoRoot(dir) ==
    /\ call' = [op |-> "looksLikeRepoRoot", dir |-> dir,
                ret |-> looksLikeRepoRoot(environ, dir)]
    /\ UNCHANGED <<files, cfg, tlog, store, execResult, environ, cmd>>

NextRoot ==
    \/ CallRepoRoot
    \/ \E dir \in {"/", "/w", "/w/evals"} : CallLooksLikeRepoRoot(dir)

SpecRoot == InitRoot /\ [][NextRoot]_vars

\* dir has the workspace marker: both skills/ and evals/.
HasWorkspaceMarker(e, dir) ==
    /\ dir \o (IF dir = "/" THEN "" ELSE "/") \o "skills" \in e.dirs
    /\ dir \o (IF dir = "/" THEN "" ELSE "/") \o "evals" \in e.dirs

\* dir has the version-control marker.
HasGitMarker(e, dir) ==
    dir \o (IF dir = "/" THEN "" ELSE "/") \o ".git" \in e.dirs

Walked ==
    /\ call.op = "repoRoot"
    /\ environ.SKILLS_REPO_ROOT = ""

\* C25: walking upward from the current directory, a directory that has
\* .git and not both skills/ and evals/ is returned as the root only when
\* no directory from the current directory up to "/" has both skills/ and
\* evals/.
C25_WorkspaceMarkerPreferred ==
    (/\ Walked
     /\ call.err = ""
     /\ HasGitMarker(environ, call.root)
     /\ ~HasWorkspaceMarker(environ, call.root))
        => \A dir \in Ancestors(environ.cwd) :
               ~HasWorkspaceMarker(environ, dir)

\* dir carries a root marker.
HasMarker(e, dir) == HasWorkspaceMarker(e, dir) \/ HasGitMarker(e, dir)

\* C26: repoRoot ends with a root or with an error, never both or neither.
\* With SKILLS_REPO_ROOT set it looks at that path alone: the path is the
\* root if it carries a marker, and otherwise the call fails, whatever the
\* working directory would have led to.  With it unset, the walk looks at
\* directories from the working directory up to "/" only, at none of them
\* twice, returns only a directory that carries a marker, and fails when it
\* has looked at "/" and no directory on the way carries one.
C26_RepoRootEndsWithRootOrError ==
    call.op = "repoRoot" =>
        /\ (call.err = "") # (call.root = "")
        /\ environ.SKILLS_REPO_ROOT # "" =>
              /\ call.visited = <<environ.SKILLS_REPO_ROOT>>
              /\ IF HasMarker(environ, environ.SKILLS_REPO_ROOT)
                 THEN call.err = "" /\ call.root = environ.SKILLS_REPO_ROOT
                 ELSE call.err # ""
        /\ environ.SKILLS_REPO_ROOT = "" =>
              /\ call.visited[1] = environ.cwd
              /\ Elems(call.visited) \subseteq Ancestors(environ.cwd)
              /\ NoDuplicates(call.visited)
              /\ call.err = "" =>
                    /\ HasMarker(environ, call.root)
                    /\ call.root = call.visited[Len(call.visited)]
              /\ call.err # "" =>
                    /\ call.visited[Len(call.visited)] = "/"
                    /\ \A dir \in Ancestors(environ.cwd) :
                           ~HasMarker(environ, dir)

\* The override names a directory that does not exist while the working
\* directory is inside a tree with a marker: the call failed.
C26_Witness ==
    /\ call.op = "repoRoot"
    /\ environ.SKILLS_REPO_ROOT = "/gone"
    /\ environ.cwd = "/w/evals"
    /\ HasWorkspaceMarker(environ, "/w")
    /\ call.err # ""
    /\ call.root = ""

\* A whitespace character of a prompt.
IsSpace(ch) == ch \in {" ", "\t", "\n"}

\* The leading token of s: what comes before its first whitespace character.
RECURSIVE LeadingToken(_)
LeadingToken(s) ==
    IF s = "" \/ IsSpace(SubSeq(s, 1, 1)) THEN ""
    ELSE SubSeq(s, 1, 1) \o LeadingToken(SubSeq(s, 2, Len(s)))

\* C27: for a prompt that begins with "/", the candidate skill name is what
\* stands between the slash and the first whitespace character, be it a
\* space, a tab or a newline: when the init event lists that name, SkillUses
\* lists it.
C27_SlashNameEndsAtWhitespace ==
    (call.op = "SkillUses" /\ HasPrefix(execResult.Prompt, "/")) =>
        LET name == LeadingToken(SubSeq(execResult.Prompt, 2,
                                        Len(execResult.Prompt)))
        IN  (name # "" /\ ListedByInit(execResult, name))
                => name \in Elems(call.skills)

\* The positions of the tool_use blocks that decode.
ToolUsePositions(r) == {p \in Blocks(r) : IsToolUse(r, p)}

\* The place of position p among them, in trace order.
Rank(r, p) == Cardinality({q \in ToolUsePositions(r) : Before(q, p)}) + 1

\* The first tool_use block with the given name.
FirstUse(r, name) ==
    CHOOSE p \in ToolUsePositions(r) :
        /\ BlockAt(r, p).item.Name = name
        /\ \A q \in ToolUsePositions(r) :
               BlockAt(r, q).item.Name = name => ~Before(q, p)

\* C28: ToolUses returns exactly the blocks that decode and have type
\* tool_use, each once, in the order of the trace across all events: a
\* block that does not decode or has another type is left out and the
\* blocks after it are kept.  ToolNames lists the non-empty names of these
\* blocks, each once, in the order in which they first appear.
C28_TolerantBlockDecoding ==
    /\ call.op = "ToolUses" =>
          /\ Len(call.items) = Cardinality(ToolUsePositions(execResult))
          /\ \A p \in ToolUsePositions(execResult) :
                 call.items[Rank(execResult, p)] = BlockAt(execResult, p).item
    /\ call.op = "ToolNames" =>
          /\ NoDuplicates(call.names)
          /\ Elems(call.names) = ToolNameSet(execResult)
          /\ \A a, b \in ToolNameSet(execResult) :
                 Before(FirstUse(execResult, a), FirstUse(execResult, b))
                     => IndexOf(call.names, a) < IndexOf(call.names, b)

\* A block that does not decode comes first in the first event, a block of
\* another type first in the second: the tool_use blocks after them are
\* all returned, the one without a name included.
C28_Witness ==
    /\ call.op = "ToolUses"
    /\ Len(execResult.Events) = 2
    /\ Len(execResult.Events[1].Message.Content) = 3
    /\ Len(execResult.Events[2].Message.Content) = 3
    /\ ~BlockAt(execResult, <<1, 1>>).decodes
    /\ IsToolUse(execResult, <<1, 2>>)
    /\ BlockAt(execResult, <<2, 1>>).decodes
    /\ BlockAt(execResult, <<2, 1>>).item.Type = "tool_result"
    /\ Len(call.items) = 4
    /\ call.items[1].Name = "Bash"
    /\ call.items[3].Name = ""
    /\ call.items[4].Name = "Read"

IsInit(e) == e.Type = "system" /\ e.Subtype = "init"

\* The earliest system/init event of a trace that has one.
FirstInit(r) ==
    r.Events[CHOOSE i \in 1..Len(r.Events) :
                 /\ IsInit(r.Events[i])
                 /\ \A j \in 1..(i - 1) : ~IsInit(r.Events[j])]

\* C29: isRegisteredSkill(name) is whether the earliest event of type system
\* and subtype init lists the name, and false when the trace has no such
\* event; a later init event and a system event of another subtype do not
\* count.  A slash command is accepted by SkillUses under the same rule.
C29_FirstInitEventDecides ==
    /\ call.op = "isRegisteredSkill" =>
          (call.ret <=>
              /\ \E i \in 1..Len(execResult.Events) :
                     IsInit(execResult.Events[i])
              /\ call.name \in Elems(FirstInit(execResult).Skills))
    /\ (call.op = "SkillUses" /\ execResult.Prompt = "/rwx"
           /\ ToolSkillSet(execResult) = {}) =>
          ("rwx" \in Elems(call.skills) <=>
              /\ \E i \in 1..Len(execResult.Events) :
                     IsInit(execResult.Events[i])
              /\ "rwx" \in Elems(FirstInit(execResult).Skills))

\* The first init event lists no skill and a second one lists rwx: rwx is
\* not registered.
C29_Witness ==
    /\ call.op = "isRegisteredSkill"
    /\ call.name = "rwx"
    /\ call.ret = FALSE
    /\ Len(execResult.Events) = 2
    /\ IsInit(execResult.Events[1])
    /\ IsInit(execResult.Events[2])
    /\ execResult.Events[2].Skills = <<"rwx">>

\* C30: when a run of a test in record mode has stored the snapshot of a
\* result and the next run of the same test, record mode off, has the same
\* result, the baseline that run loads is that result's snapshot and the
\* run reports nothing: no regression for any metric, no warning, no
\* failure.
C30_RecordThenCompareRoundTrip ==
    [][(/\ call.op = "AssertNoRegression" /\ call.update
        /\ HasResultEvent(call.result)
        /\ call'.op = "AssertNoRegression" /\ ~call'.update
        /\ call'.testName = call.testName
        /\ call'.result = call.result)
          => /\ call'.before.exists
             /\ UnmarshalBaseline(call'.before.data) = CurrentSnapshot
             /\ tlog' = <<>>
             /\ call'.divisors
                   = SelectSeq(<<CurrentMetric("input_tokens"),
                                 CurrentMetric("output_tokens"),
                                 CurrentMetric("execution_time_ms")>>,
                               LAMBDA v : v # 0)]_vars

\* A run with record mode off loaded a baseline that is the snapshot of its
\* own result, tools and skills included, one metric being zero and one
\* negative, and reported nothing.
C30_Witness ==
    /\ Compared
    /\ call.before.exists
    /\ UnmarshalBaseline(call.before.data) = CurrentSnapshot
    /\ CurrentSnapshot.ToolsUsed # <<>>
    /\ CurrentMetric("input_tokens") = -5
    /\ CurrentMetric("execution_time_ms") = 0
    /\ tlog = <<>>

====
